---- MODULE Spec2Model ----
(***************************************************************************)
(* Model of the voice check-in agent.                                      *)
(*                                                                         *)
(*  - VoiceCheckAgent (src/voice_check_agent.py): the periodic check-in    *)
(*    orchestrator, and the two programs that construct it (main() of     *)
(*    voice_check_agent.py and of run_agent.py).                           *)
(*    start() runs on the main thread, check_in_timer() on                 *)
(*    a daemon thread; each runs perform_check_in_cycle() on its own event *)
(*    loop, and each cycle runs an audio task and a message task.          *)
(*  - ToolHandler (src/api_manager.py): the batch tool dispatcher.         *)
(*  - the conversation log (add_to_history) fed by the text events.        *)
(*  - OpenAIRealtimeManager and GeminiLiveManager (src/openai_manager.py,  *)
(*    src/gemini_manager.py): the conversion of provider events into       *)
(*    APIMessages, and the operations of one adapter in any order.         *)
(*                                                                         *)
(* Time is abstracted: a sleep, the 120 s ceiling and the 10 s grace wait  *)
(* are events that may occur whenever the code is waiting for them.        *)
(* A step of a thread is a block of code that can run without the other    *)
(* thread being scheduled; the blocks end at the awaits and at the         *)
(* attribute reads that the other thread can race with.                    *)
(* stop() is modelled from the wait loop of start(), that is after the     *)
(* first cycle has returned.                                               *)
(***************************************************************************)
EXTENDS Integers, Sequences, FiniteSets, TLC

\* ------------------------------------------------------------------ bounds
MaxCycles == 2      \* check-in cycles started in one run (initial + timer)
MaxBatch  == 3      \* tool calls in one batch given to ToolHandler
MaxEvents == 3      \* provider events given to the two adapters
MaxProvided == 3    \* frames sent and connections dropped by the provider
MaxAppends == 503   \* text events in one run of the conversation log
PatternLen == 2     \* period of the shapes of those events
MaxDelay == 2       \* longest ai_speech_delay, in clock ticks
MaxClock == 6       \* last clock tick of a run of the feedback manager

\* --------------------------------------------------------------- constants
None    == 0
Threads == {"main", "timer"}
Handles == 1..MaxCycles          \* connection objects websockets.connect can return
EventKinds == {"other", "garbage", "alarm", "unknown", "disconnect"}
\* an absent value (Python None) and a present one
Nothing == <<>>
Some(v) == <<v>>

VARIABLES
  \* VoiceCheckAgent fields
  is_running, websocket, should_disconnect, alarm_triggered, disconnect_reason,
  input_stream, output_stream, mic_record_file,
  \* the provider side, per connection object: "unused" (not yet returned by
  \* websockets.connect), "fresh" (open, no session.update received),
  \* "configured" (open, session.update received), "closed"
  conn,
  \* control state of the two threads and of each cycle's two tasks
  pc, apc, mpc, iter,
  \* bookkeeping of the run (what happened, for the properties)
  cycles, cyc, session_data, opener, lastSend, info,
  \* the program that constructs the agent: the interval it has accepted, the
  \* OPENAI_API_KEY of its environment, the agent's check_interval_minutes
  \* (Nothing while no agent exists); the name given to get_api_manager and
  \* what the call produced
  interval, api_key, check_interval_minutes, api_provider, manager,
  \* AudioFeedbackManager fields (self.feedback_manager of the agent), the
  \* value of time.time(), when the AI was last marked as finished (Nothing
  \* while it was never marked or speaks again), and what the
  \* process_microphone_audio call just made returned ("none" when the last
  \* step was another call)
  strategy, ai_speech_delay, ai_is_speaking, microphone_muted,
  last_ai_audio_time, push_to_talk_pressed, manual_mute, clock, finished_at,
  processed_audio,
  \* ToolHandler.handle_function_call
  tool_calls, idx, results, tpc, wire, notified, ended, am_open,
  \* the conversation log, the text events that arrived, and the shapes of
  \* the events still to come
  conversation_history, arrived, pattern,
  \* history_prompt of configure_session while it is being built (Nothing
  \* otherwise)
  history_prompt,
  \* the provider events given to both adapters, how many of them each
  \* receive path has taken, GeminiLiveManager.message_queue, and the
  \* messages each receive_messages() has yielded
  events, fed_openai, fed_gemini, message_queue, yielded_openai, yielded_gemini,
  \* one adapter: which manager it is, its handle (self.websocket of the
  \* OpenAI manager, self.session of the Gemini one), is_connected,
  \* _session_context and _receive_task of the Gemini manager, whether the
  \* connection behind the handle is open, the frames the provider has sent
  \* that are not yet read, how much the provider has done, the state of the
  \* caller's iteration over receive_messages(), and the last call made
  provider, session, is_connected, session_context, receive_task, alive, inbox,
  provided, consumer, last_op,
  \* how many of the messages at the head of message_queue were put there
  \* by the receive task of an earlier live session than the present one
  old_queued

agentFlags == <<should_disconnect, alarm_triggered, disconnect_reason>>
streams    == <<input_stream, output_stream, mic_record_file>>
ctl        == <<pc, apc, mpc, iter>>
runInfo    == <<cycles, cyc, session_data, opener>>
toolVars   == <<tool_calls, idx, results, tpc, wire, notified, ended, am_open>>
launchVars == <<interval, api_key, check_interval_minutes, api_provider, manager>>
fbVars     == <<strategy, ai_speech_delay, ai_is_speaking, microphone_muted,
                last_ai_audio_time, push_to_talk_pressed, manual_mute, clock,
                finished_at, processed_audio>>
agentCore  == <<is_running, websocket, agentFlags, streams, conn, ctl, runInfo,
                lastSend, info, launchVars>>
agentVars  == <<agentCore, fbVars>>
histVars   == <<conversation_history, arrived, pattern, history_prompt>>
convVars   == <<events, fed_openai, fed_gemini, message_queue, yielded_openai,
                yielded_gemini>>
adVars     == <<provider, session, is_connected, session_context, receive_task,
                alive, inbox, provided, consumer, last_op, old_queued>>
libVars    == <<histVars, convVars, adVars>>
otherVars  == <<toolVars, libVars, launchVars, fbVars>>
vars       == <<agentVars, toolVars, libVars>>

\* ------------------------------------------------------------ cycle states
CyclePcs == {"create", "connect", "configure", "audio_setup", "greeting1",
             "greeting2", "wait", "teardown", "exc", "closing", "end"}
\* thread t is inside perform_check_in_cycle
InCycle(t) == pc[t] \in CyclePcs

\* lastSend holds the message written by the step just taken, if any
NoSend == [by |-> 0, on |-> 0, kind |-> "none", cfg |-> FALSE, ev |-> "none"]
Quiet  == lastSend' = NoSend
\* one message written to connection h by the cycle running on thread t
IsOpen(h) == conn[h] \in {"fresh", "configured"}
Sent(t, h, k) == [by |-> cyc[t], on |-> h, kind |-> k, cfg |-> conn[h] = "configured",
                  ev |-> "none"]
\* the step processed inbound event e and wrote nothing
Handled(e) == [NoSend EXCEPT !.ev = e]
CanSend(h) == h # None /\ IsOpen(h)
NewHandle == CHOOSE h \in Handles : conn[h] = "unused" /\
                 \A g \in Handles : conn[g] = "unused" => h <= g

\* what has happened in the cycle a thread is running: disconnect() calls made
\* by the cycle, whether a Disconnect_Socket or Sound_Alarm call arrived,
\* whether the ceiling elapsed, whether an exception reached the except clause,
\* whether the grace wait elapsed, how many times the greeting text was written
NoInfo == [disc |-> 0, tool |-> FALSE, timedOut |-> FALSE, failed |-> FALSE,
           grace |-> FALSE,
           greet |-> 0]

\* ------------------------------------------------------------------- Init
\* the strategies of AudioFeedbackManager, and one name that is none of them
Strategies == {"smart_muting", "push_to_talk", "echo_cancellation", "api_handled",
               "other"}

\* AudioFeedbackManager.__init__: a push_to_talk manager falls back to
\* smart_muting when the keyboard library cannot be imported. The clock
\* reads at least MaxDelay, as last_ai_audio_time = 0 is long past
FeedbackNew(s, delay, keyboard) ==
  /\ strategy = (IF s = "push_to_talk" /\ ~keyboard THEN "smart_muting" ELSE s)
  /\ ai_speech_delay = delay
  /\ ai_is_speaking = FALSE /\ microphone_muted = FALSE
  /\ last_ai_audio_time = 0
  /\ push_to_talk_pressed = FALSE /\ manual_mute = FALSE
  /\ clock = MaxDelay /\ finished_at = Nothing /\ processed_audio = "none"

\* the feedback manager of VoiceCheckAgent(): smart_muting, delay 0.5 s
FbIdle == FeedbackNew("smart_muting", 1, TRUE)

AgentFields ==
  /\ is_running = FALSE /\ websocket = None
  /\ should_disconnect = FALSE /\ alarm_triggered = FALSE
  /\ disconnect_reason = "none"
  /\ input_stream = FALSE /\ output_stream = FALSE /\ mic_record_file = FALSE
  /\ conn = [h \in Handles |-> "unused"]
  /\ apc = [t \in Threads |-> "none"]
  /\ mpc = [t \in Threads |-> "none"]
  /\ iter = [t \in Threads |-> None]
  /\ cycles = 0 /\ cyc = [t \in Threads |-> 0]
  /\ session_data = [t \in Threads |-> None]
  /\ opener = [h \in Handles |-> 0]
  /\ lastSend = NoSend
  /\ info = [t \in Threads |-> NoInfo]

AgentNew == AgentFields /\ FbIdle

\* --interval of voice_check_agent.py when the option is not given, and the
\* interval of run_agent.py when the prompt is answered with an empty line
DefaultInterval == 5
LauncherDefault == 10

\* "if not self.api_key": the variable is unset or empty
HasKey == api_key # Nothing /\ api_key # Some("")

\* an agent constructed by voice_check_agent.py run without --interval, with
\* a key in the environment
Constructed ==
  /\ interval = Nothing
  /\ api_key = Some("key")
  /\ check_interval_minutes = Some(DefaultInterval)
  /\ api_provider = "openai" /\ manager = "none"

\* the agent after its constructor has returned, before start()
AgentInit ==
  /\ AgentNew
  /\ pc = [t \in Threads |-> IF t = "main" THEN "init" ELSE "off"]
  /\ Constructed

ToolIdle ==
  /\ tool_calls = <<>> /\ idx = 0 /\ results = <<>> /\ tpc = "idle"
  /\ wire = <<>> /\ notified = <<>> /\ ended = 0 /\ am_open = FALSE

\* self.conversation_history = []
HistIdle ==
  /\ conversation_history = <<>> /\ arrived = <<>> /\ pattern = <<>>
  /\ history_prompt = Nothing

\* self.message_queue = asyncio.Queue()
ConvIdle ==
  /\ events = <<>> /\ fed_openai = 0 /\ fed_gemini = 0
  /\ message_queue = <<>> /\ yielded_openai = <<>> /\ yielded_gemini = <<>>

\* no call made yet, or the last step was not a call
NoOp == [op |-> "none", outcome |-> "none", connected |-> FALSE, held |-> FALSE,
         effect |-> FALSE, frame |-> "none", before |-> <<>>]

\* RealtimeAPIManager.__init__ and the two managers' __init__
AdapterNew ==
  /\ session = "none" /\ is_connected = FALSE
  /\ session_context = FALSE /\ receive_task = "none"
  /\ alive = FALSE /\ inbox = <<>> /\ provided = 0
  /\ consumer = "none" /\ last_op = NoOp
  /\ old_queued = 0

AdIdle == provider = "openai" /\ AdapterNew

LibIdle == HistIdle /\ ConvIdle /\ AdIdle

Init == AgentInit /\ ToolIdle /\ LibIdle

\* ------------------------------------------------- perform_check_in_cycle
\* an exception reaches the except clause of perform_check_in_cycle
Raise(t) ==
  /\ pc' = [pc EXCEPT ![t] = "exc"]
  /\ info' = [info EXCEPT ![t].failed = TRUE]

\* the last statement of perform_check_in_cycle is reached
CycleEnd(t) ==
  /\ pc' = [pc EXCEPT ![t] = "end"]
  /\ UNCHANGED <<apc, mpc, iter>>

\* a cycle start that leaves alarm_triggered as the previous cycle left it
BeginCycleKeepsAlarm(t) ==
  /\ should_disconnect' = FALSE
  /\ UNCHANGED alarm_triggered
  /\ disconnect_reason' = "none"
  /\ cycles' = cycles + 1
  /\ cyc' = [cyc EXCEPT ![t] = cycles + 1]
  /\ info' = [info EXCEPT ![t] = NoInfo]

\* the first statements of a cycle: the three per-cycle flags are reset
BeginCycle(t) ==
  /\ should_disconnect' = FALSE
  /\ alarm_triggered' = FALSE
  /\ disconnect_reason' = "none"
  /\ cycles' = cycles + 1
  /\ cyc' = [cyc EXCEPT ![t] = cycles + 1]
  /\ info' = [info EXCEPT ![t] = NoInfo]

\* start(): set the running flag and start the timer thread
Start ==
  /\ pc["main"] = "init"
  /\ is_running' = TRUE
  /\ pc' = [pc EXCEPT !["main"] = "started", !["timer"] = "sleep"]
  /\ Quiet
  /\ UNCHANGED <<websocket, agentFlags, streams, conn, apc, mpc, iter, runInfo,
                 info, otherVars>>

\* start(): the next statement awaits perform_check_in_cycle
FirstCycle ==
  /\ pc["main"] = "started"
  /\ BeginCycle("main")
  /\ pc' = [pc EXCEPT !["main"] = "create"]
  /\ Quiet
  /\ UNCHANGED <<is_running, websocket, streams, conn, apc, mpc, iter,
                 session_data, opener, otherVars>>

\* the argument of time.sleep, in minutes
IntervalMinutes == check_interval_minutes[1]

\* cycles that start() is about to begin
Pending == IF pc["main"] = "started" THEN 1 ELSE 0

\* check_in_timer: time.sleep(check_interval_minutes * 60) raises ValueError
\* for a negative argument, outside the try of the loop, which ends the
\* thread; otherwise the sleep ends and "if self.is_running" is evaluated:
\* the thread goes on to make its event loop, or leaves the while loop.
\* A sleep of one minute or more does not end before the main thread has
\* executed the statement that follows the start of the timer thread.
TimerWake ==
  /\ pc["timer"] = "sleep"
  /\ \/ /\ is_running
        /\ IntervalMinutes < 0
        /\ pc' = [pc EXCEPT !["timer"] = "dead"]
     \/ /\ is_running
        /\ IntervalMinutes >= 0
        /\ IntervalMinutes > 0 => pc["main"] # "started"
        /\ cycles + Pending < MaxCycles
        /\ pc' = [pc EXCEPT !["timer"] = "woken"]
     \/ /\ ~is_running
        /\ pc' = [pc EXCEPT !["timer"] = "exit"]
  /\ Quiet
  /\ UNCHANGED <<is_running, websocket, agentFlags, streams, conn, apc, mpc, iter,
                 runInfo, info, otherVars>>

\* check_in_timer: the new event loop runs perform_check_in_cycle
TimerRun ==
  /\ pc["timer"] = "woken"
  /\ BeginCycle("timer")
  /\ pc' = [pc EXCEPT !["timer"] = "create"]
  /\ Quiet
  /\ UNCHANGED <<is_running, websocket, streams, conn, apc, mpc, iter,
                 session_data, opener, otherVars>>

\* create_session: the POST returns the session of this request, with its own
\* client secret (named here by the cycle that asked for it), or fails
CreateSession(t) ==
  /\ pc[t] = "create"
  /\ \/ /\ session_data' = [session_data EXCEPT ![t] = cyc[t]]
        /\ pc' = [pc EXCEPT ![t] = "connect"]
        /\ UNCHANGED info
     \/ /\ Raise(t)
        /\ UNCHANGED session_data
  /\ Quiet
  /\ UNCHANGED <<is_running, websocket, agentFlags, streams, conn, apc, mpc, iter,
                 cycles, cyc, opener, otherVars>>

\* connect_websocket, up to the assignment of self.websocket
Connect(t) ==
  /\ pc[t] = "connect"
  /\ session_data[t] # None
  /\ \/ /\ websocket' = NewHandle
        /\ conn' = [conn EXCEPT ![NewHandle] = "fresh"]
        /\ opener' = [opener EXCEPT ![NewHandle] = cyc[t]]
        /\ pc' = [pc EXCEPT ![t] = "configure"]
        /\ UNCHANGED info
     \/ /\ Raise(t)
        /\ UNCHANGED <<websocket, conn, opener>>
  /\ Quiet
  /\ UNCHANGED <<is_running, agentFlags, streams, apc, mpc, iter, cycles, cyc,
                 session_data, otherVars>>

\* configure_session: session.update is sent on whatever self.websocket is now
Configure(t) ==
  /\ pc[t] = "configure"
  /\ IF CanSend(websocket)
     THEN /\ conn' = [conn EXCEPT ![websocket] = "configured"]
          /\ lastSend' = Sent(t, websocket, "config")
          /\ pc' = [pc EXCEPT ![t] = "audio_setup"]
          /\ UNCHANGED info
     ELSE /\ Raise(t)
          /\ Quiet
          /\ UNCHANGED conn
  /\ UNCHANGED <<is_running, websocket, agentFlags, streams, apc, mpc, iter,
                 runInfo, otherVars>>

\* setup_audio_streams: input stream, output stream, recording file, in this
\* order; a failure leaves what was opened before it
SetupAudio(t) ==
  /\ pc[t] = "audio_setup"
  /\ \/ /\ input_stream' = TRUE /\ output_stream' = TRUE /\ mic_record_file' = TRUE
        /\ pc' = [pc EXCEPT ![t] = "greeting1"]
        /\ UNCHANGED info
     \/ /\ UNCHANGED streams
        /\ Raise(t)
     \/ /\ input_stream' = TRUE /\ UNCHANGED <<output_stream, mic_record_file>>
        /\ Raise(t)
     \/ /\ input_stream' = TRUE /\ output_stream' = TRUE /\ UNCHANGED mic_record_file
        /\ Raise(t)
  /\ Quiet
  /\ UNCHANGED <<is_running, websocket, agentFlags, conn, apc, mpc, iter, runInfo, otherVars>>

\* send_check_in_message, first send: the "check on me" item
Greeting1(t) ==
  /\ pc[t] = "greeting1"
  /\ IF CanSend(websocket)
     THEN /\ lastSend' = Sent(t, websocket, "greeting")
          /\ pc' = [pc EXCEPT ![t] = "greeting2"]
          /\ info' = [info EXCEPT ![t].greet = @ + 1]
     ELSE /\ Raise(t)
          /\ Quiet
  /\ UNCHANGED <<is_running, websocket, agentFlags, streams, conn, apc, mpc, iter,
                 runInfo, otherVars>>

\* a second send that writes the "check on me" item once more
Greeting2Resends(t) ==
  /\ pc[t] = "greeting2"
  /\ IF CanSend(websocket)
     THEN /\ lastSend' = Sent(t, websocket, "greeting")
          /\ pc' = [pc EXCEPT ![t] = "wait"]
          /\ apc' = [apc EXCEPT ![t] = "run"]
          /\ mpc' = [mpc EXCEPT ![t] = "start"]
          /\ info' = [info EXCEPT ![t].greet = @ + 1]
     ELSE /\ Raise(t)
          /\ Quiet
          /\ UNCHANGED <<apc, mpc>>
  /\ UNCHANGED <<is_running, websocket, agentFlags, streams, conn, iter, runInfo, otherVars>>

\* send_check_in_message, second send (response.create); then the two tasks
\* are created and the cycle waits for them under the 120 s ceiling
Greeting2(t) ==
  /\ pc[t] = "greeting2"
  /\ IF CanSend(websocket)
     THEN /\ lastSend' = Sent(t, websocket, "create")
          /\ pc' = [pc EXCEPT ![t] = "wait"]
          /\ apc' = [apc EXCEPT ![t] = "run"]
          /\ mpc' = [mpc EXCEPT ![t] = "start"]
          /\ UNCHANGED info
     ELSE /\ Raise(t)
          /\ Quiet
          /\ UNCHANGED <<apc, mpc>>
  /\ UNCHANGED <<is_running, websocket, agentFlags, streams, conn, iter, runInfo, otherVars>>

\* ---------------------------------------------------------------- disconnect
\* disconnect() without its outer except clause: the exception leaves
\* disconnect and, from the except clause of the cycle, the cycle itself
DisconnectRaises(t, Returned) ==
  /\ pc' = [pc EXCEPT ![t] = "raised"]
  /\ UNCHANGED <<websocket, apc, mpc, iter>>

\* disconnect(), outer except clause: the websocket attribute is cleared
\* without close() having been called, and disconnect returns normally
DisconnectOuterExcept(t, Returned) ==
  /\ websocket' = None
  /\ Returned

\* disconnect(), from its first statement to its first await.  Closing is what
\* the caller does while close() is awaited, Returned what it does when
\* disconnect returns without awaiting.
DisconnectBody(t, Closing, Returned) ==
  \/ \* both streams and the recording file are closed and cleared
     /\ input_stream' = FALSE /\ output_stream' = FALSE /\ mic_record_file' = FALSE
     /\ IF websocket # None
        THEN /\ conn' = [conn EXCEPT ![websocket] = "closed"]
             /\ UNCHANGED websocket
             /\ Closing
        ELSE /\ UNCHANGED <<conn, websocket>>
             /\ Returned
  \/ \* stop_stream()/close() of the input stream raises
     /\ input_stream
     /\ UNCHANGED <<streams, conn>>
     /\ DisconnectOuterExcept(t, Returned)
  \/ \* stop_stream()/close() of the output stream raises
     /\ output_stream
     /\ input_stream' = FALSE
     /\ UNCHANGED <<output_stream, mic_record_file, conn>>
     /\ DisconnectOuterExcept(t, Returned)

\* ------------------------------------------------------------ audio_input_loop
AudioStep(t) ==
  /\ pc[t] = "wait" /\ apc[t] = "run"
  /\ IF is_running /\ websocket # None /\ ~should_disconnect
     THEN /\ input_stream
          /\ \/ \* the chunk is read and sent
                /\ CanSend(websocket)
                /\ lastSend' = Sent(t, websocket, "audio")
                /\ UNCHANGED apc
             \/ \* the send raises: the loop breaks
                /\ ~CanSend(websocket)
                /\ apc' = [apc EXCEPT ![t] = "done"]
                /\ Quiet
             \/ \* input_stream.read raises: the loop breaks
                /\ apc' = [apc EXCEPT ![t] = "done"]
                /\ Quiet
     ELSE /\ apc' = [apc EXCEPT ![t] = "done"]
          /\ Quiet
  /\ UNCHANGED <<is_running, websocket, agentFlags, streams, conn, pc, mpc, iter,
                 runInfo, info, otherVars>>

\* ---------------------------------------------------- handle_websocket_messages
\* the task starts: async for evaluates self.websocket once
MsgStart(t) ==
  /\ pc[t] = "wait" /\ mpc[t] = "start"
  /\ IF websocket # None
     THEN /\ iter' = [iter EXCEPT ![t] = websocket]
          /\ mpc' = [mpc EXCEPT ![t] = "recv"]
     ELSE /\ mpc' = [mpc EXCEPT ![t] = "done"]
          /\ UNCHANGED iter
  /\ Quiet
  /\ UNCHANGED <<is_running, websocket, agentFlags, streams, conn, pc, apc,
                 runInfo, info, otherVars>>

\* after process_realtime_event: "if self.should_disconnect: break"
AfterEvent(t, flag) ==
  mpc' = [mpc EXCEPT ![t] = IF flag THEN "done" ELSE "recv"]

\* one message arrives on the iterated connection and is processed up to the
\* first await of its handler
MsgRecv(t, k) ==
  /\ pc[t] = "wait" /\ mpc[t] = "recv"
  /\ IsOpen(iter[t])
  /\ IF websocket = None
     THEN \* "WebSocket was closed during execution": break
          /\ mpc' = [mpc EXCEPT ![t] = "done"]
          /\ Quiet
          /\ UNCHANGED <<agentFlags, info>>
     ELSE
       \/ /\ k = "other"
          /\ AfterEvent(t, should_disconnect)
          /\ Quiet
          /\ UNCHANGED <<agentFlags, info>>
       \/ /\ k = "garbage"     \* json.loads raises: caught outside the loop
          /\ mpc' = [mpc EXCEPT ![t] = "done"]
          /\ Quiet
          /\ UNCHANGED <<agentFlags, info>>
       \/ /\ k = "unknown"     \* logged only
          /\ AfterEvent(t, should_disconnect)
          /\ lastSend' = Handled("unknown")
          /\ UNCHANGED <<agentFlags, info>>
       \/ /\ k = "alarm"
          /\ alarm_triggered' = TRUE
          /\ UNCHANGED <<should_disconnect, disconnect_reason>>
          /\ info' = [info EXCEPT ![t].tool = TRUE]
          /\ IF CanSend(websocket)
             THEN /\ lastSend' = [Sent(t, websocket, "result") EXCEPT !.ev = "alarm"]
                  /\ mpc' = [mpc EXCEPT ![t] = "after_call"]
             ELSE \* the send raises, and so does the send of the error result
                  /\ mpc' = [mpc EXCEPT ![t] = "done"]
                  /\ lastSend' = Handled("alarm")
       \/ /\ k = "disconnect"
          /\ should_disconnect' = TRUE
          /\ disconnect_reason' = "tool"
          /\ UNCHANGED alarm_triggered
          /\ info' = [info EXCEPT ![t].tool = TRUE]
          /\ IF CanSend(websocket)
             THEN /\ lastSend' = [Sent(t, websocket, "result") EXCEPT !.ev = "disconnect"]
                  /\ mpc' = [mpc EXCEPT ![t] = "grace"]
             ELSE /\ mpc' = [mpc EXCEPT ![t] = "done"]
                  /\ lastSend' = Handled("disconnect")
  /\ UNCHANGED <<is_running, websocket, streams, conn, pc, apc, iter, runInfo, otherVars>>

\* the iterated connection is closed: the iteration ends
MsgClosed(t) ==
  /\ pc[t] = "wait" /\ mpc[t] = "recv"
  /\ ~IsOpen(iter[t])
  /\ mpc' = [mpc EXCEPT ![t] = "done"]
  /\ Quiet
  /\ UNCHANGED <<is_running, websocket, agentFlags, streams, conn, pc, apc, iter,
                 runInfo, info, otherVars>>

\* the 10 s sleep of the Disconnect_Socket handler ends: disconnect() is called
GraceElapsed(t) ==
  /\ pc[t] = "wait" /\ mpc[t] = "grace"
  /\ info' = [info EXCEPT ![t].grace = TRUE, ![t].disc = @ + 1]
  /\ DisconnectBody(t,
        mpc' = [mpc EXCEPT ![t] = "closing"] /\ UNCHANGED <<pc, apc, iter>>,
        mpc' = [mpc EXCEPT ![t] = "after_call"] /\ UNCHANGED <<pc, apc, iter>>)
  /\ Quiet
  /\ UNCHANGED <<is_running, agentFlags, runInfo, otherVars>>

\* close() returns in the handler's disconnect: finally self.websocket = None
HandlerCloseDone(t) ==
  /\ pc[t] = "wait" /\ mpc[t] = "closing"
  /\ websocket' = None
  /\ mpc' = [mpc EXCEPT ![t] = "after_call"]
  /\ Quiet
  /\ UNCHANGED <<is_running, agentFlags, streams, conn, pc, apc, iter, runInfo,
                 info, otherVars>>

\* the handler has returned: "if self.should_disconnect: break"
MsgAfter(t) ==
  /\ pc[t] = "wait" /\ mpc[t] = "after_call"
  /\ AfterEvent(t, should_disconnect)
  /\ Quiet
  /\ UNCHANGED <<is_running, websocket, agentFlags, streams, conn, pc, apc, iter,
                 runInfo, info, otherVars>>

\* the provider closes a connection, or the connection is lost
PeerClose(h) ==
  /\ IsOpen(h)
  /\ conn' = [conn EXCEPT ![h] = "closed"]
  /\ Quiet
  /\ UNCHANGED <<is_running, websocket, agentFlags, streams, ctl, runInfo,
                 info, otherVars>>

\* --------------------------------------------- wait_for(gather(...), 120)
\* both tasks have ended: wait_for returns
GatherDone(t) ==
  /\ pc[t] = "wait" /\ apc[t] = "done" /\ mpc[t] = "done"
  /\ pc' = [pc EXCEPT ![t] = "teardown"]
  /\ Quiet
  /\ UNCHANGED <<is_running, websocket, agentFlags, streams, conn, apc, mpc, iter,
                 runInfo, info, otherVars>>

\* the 120 s ceiling elapses: both tasks are cancelled where they wait; a
\* message task cancelled inside disconnect() runs its finally clause
Timeout(t) ==
  /\ pc[t] = "wait" /\ ~(apc[t] = "done" /\ mpc[t] = "done")
  /\ websocket' = IF mpc[t] = "closing" THEN None ELSE websocket
  /\ apc' = [apc EXCEPT ![t] = "done"]
  /\ mpc' = [mpc EXCEPT ![t] = "done"]
  /\ info' = [info EXCEPT ![t].timedOut = TRUE]
  /\ pc' = [pc EXCEPT ![t] = "teardown"]
  /\ Quiet
  /\ UNCHANGED <<is_running, agentFlags, streams, conn, iter, runInfo, otherVars>>

\* "if self.websocket: await self.disconnect()", else the cycle is over
Teardown(t) ==
  /\ pc[t] = "teardown"
  /\ IF websocket # None
     THEN /\ info' = [info EXCEPT ![t].disc = @ + 1]
          /\ DisconnectBody(t,
                pc' = [pc EXCEPT ![t] = "closing"] /\ UNCHANGED <<apc, mpc, iter>>,
                CycleEnd(t))
     ELSE /\ CycleEnd(t)
          /\ UNCHANGED <<info, streams, conn, websocket>>
  /\ Quiet
  /\ UNCHANGED <<is_running, agentFlags, runInfo, otherVars>>

\* the except clause of perform_check_in_cycle: log, await self.disconnect()
ExcDisconnect(t) ==
  /\ pc[t] = "exc"
  /\ info' = [info EXCEPT ![t].disc = @ + 1]
  /\ DisconnectBody(t,
        pc' = [pc EXCEPT ![t] = "closing"] /\ UNCHANGED <<apc, mpc, iter>>,
        CycleEnd(t))
  /\ Quiet
  /\ UNCHANGED <<is_running, agentFlags, runInfo, otherVars>>

\* close() returns in the cycle's disconnect: finally self.websocket = None
CloseDone(t) ==
  /\ pc[t] = "closing"
  /\ websocket' = None
  /\ CycleEnd(t)
  /\ Quiet
  /\ UNCHANGED <<is_running, agentFlags, streams, conn, runInfo,
                 info, otherVars>>

\* perform_check_in_cycle returns to its caller: start() goes on to its wait
\* loop, check_in_timer to its next sleep; the cycle's tasks are gone
CycleReturn(t) ==
  /\ pc[t] = "end"
  /\ pc' = [pc EXCEPT ![t] = IF t = "main" THEN "mainwait" ELSE "sleep"]
  /\ apc' = [apc EXCEPT ![t] = "none"]
  /\ mpc' = [mpc EXCEPT ![t] = "none"]
  /\ iter' = [iter EXCEPT ![t] = None]
  /\ info' = [info EXCEPT ![t] = NoInfo]
  /\ session_data' = [session_data EXCEPT ![t] = None]
  /\ Quiet
  /\ UNCHANGED <<is_running, websocket, agentFlags, streams, conn, cycles, cyc,
                 opener, otherVars>>

\* ------------------------------------------------------------------- stop
\* the wait loop of start() is interrupted: finally stop(), which clears the
\* running flag and calls disconnect(); stop() may be called again later
Stop ==
  /\ pc["main"] \in {"mainwait", "stopped"}
  /\ is_running' = FALSE
  /\ DisconnectBody("main",
        pc' = [pc EXCEPT !["main"] = "stop_closing"] /\ UNCHANGED <<apc, mpc, iter>>,
        pc' = [pc EXCEPT !["main"] = "stopped"] /\ UNCHANGED <<apc, mpc, iter>>)
  /\ Quiet
  /\ UNCHANGED <<agentFlags, runInfo, info, otherVars>>

StopCloseDone ==
  /\ pc["main"] = "stop_closing"
  /\ websocket' = None
  /\ pc' = [pc EXCEPT !["main"] = "stopped"]
  /\ Quiet
  /\ UNCHANGED <<is_running, agentFlags, streams, conn, apc, mpc, iter, runInfo,
                 info, otherVars>>

\* --------------------------------------------------------------- the agent
ThreadStep(t) ==
  \/ CreateSession(t) \/ Connect(t) \/ Configure(t) \/ SetupAudio(t)
  \/ Greeting1(t) \/ Greeting2(t)
  \/ AudioStep(t) \/ MsgStart(t) \/ (\E k \in EventKinds : MsgRecv(t, k))
  \/ MsgClosed(t) \/ GraceElapsed(t) \/ HandlerCloseDone(t) \/ MsgAfter(t)
  \/ GatherDone(t) \/ Timeout(t) \/ Teardown(t) \/ ExcDisconnect(t) \/ CloseDone(t)
  \/ CycleReturn(t)

Next ==
  \/ Start \/ FirstCycle \/ TimerWake \/ TimerRun \/ Stop \/ StopCloseDone
  \/ (\E t \in Threads : ThreadStep(t))
  \/ (\E h \in Handles : PeerClose(h))

Spec == Init /\ [][Next]_vars

\* ------------------------------------------------- the programs that launch
\* the interval arguments and prompt answers that are tried
IntervalInputs == {-1, 0, DefaultInterval}
\* what the user gives: nothing, text that is not a number, or a numeral
UserInputs ==
  {[kind |-> "empty", n |-> 0], [kind |-> "text", n |-> 0]}
    \cup {[kind |-> "int", n |-> k] : k \in IntervalInputs}
\* int(s): the number a numeral denotes; ValueError (Nothing) for anything else
ParseInt(s) == IF s.kind = "int" THEN Some(s.n) ELSE Nothing

\* the names given to get_api_manager
ProviderNames == {"openai", "OpenAI", "gemini", "GEMINI", "claude", ""}
\* str.lower() on those names
Lower(name) ==
  CASE name = "OpenAI" -> "openai"
    [] name = "GEMINI" -> "gemini"
    [] OTHER -> name

\* no step of a launching program touches the agent's connection state
LaunchFrame ==
  /\ Quiet
  /\ UNCHANGED <<is_running, websocket, agentFlags, streams, conn, apc, mpc, iter,
                 runInfo, info, toolVars, libVars, fbVars>>

\* main() of voice_check_agent.py: argparse with type=int and default=5; a
\* value that is not a number ends the program in parse_args
CliMain ==
  /\ pc["main"] = "cli"
  /\ \E a \in UserInputs :
        IF a.kind = "empty"
        THEN /\ interval' = Some(DefaultInterval)
             /\ pc' = [pc EXCEPT !["main"] = "construct"]
        ELSE IF ParseInt(a) = Nothing
        THEN /\ pc' = [pc EXCEPT !["main"] = "exited"]
             /\ UNCHANGED interval
        ELSE /\ interval' = ParseInt(a)
             /\ pc' = [pc EXCEPT !["main"] = "construct"]
  /\ UNCHANGED <<api_key, check_interval_minutes, api_provider, manager>>
  /\ LaunchFrame

\* main() of run_agent.py: check_requirements, then get_user_preferences: one
\* answer to the interval prompt (asked again after an answer that is not
\* accepted) and the answer to the confirmation
LauncherMain ==
  /\ pc["main"] = "launcher"
  /\ IF ~HasKey
     THEN /\ pc' = [pc EXCEPT !["main"] = "exited"]
          /\ UNCHANGED interval
     ELSE \E a \in UserInputs, confirm \in BOOLEAN :
            IF a.kind = "empty" \/ (ParseInt(a) # Nothing /\ ParseInt(a)[1] > 0)
            THEN IF confirm
                 THEN /\ interval' = IF a.kind = "empty" THEN Some(LauncherDefault)
                                                        ELSE ParseInt(a)
                      /\ pc' = [pc EXCEPT !["main"] = "construct"]
                 ELSE /\ pc' = [pc EXCEPT !["main"] = "exited"]
                      /\ UNCHANGED interval
            ELSE UNCHANGED <<pc, interval>>
  /\ UNCHANGED <<api_key, check_interval_minutes, api_provider, manager>>
  /\ LaunchFrame

\* a constructor without the test of the key
ConstructUnchecked ==
  /\ pc["main"] = "construct"
  /\ check_interval_minutes' = interval
  /\ pc' = [pc EXCEPT !["main"] = "init"]
  /\ interval' = Nothing
  /\ UNCHANGED <<api_key, api_provider, manager>>
  /\ LaunchFrame

\* VoiceCheckAgent.__init__: the fields are set; a missing key raises
\* ValueError, which ends the program
Construct ==
  /\ pc["main"] = "construct"
  /\ IF HasKey
     THEN /\ check_interval_minutes' = interval
          /\ pc' = [pc EXCEPT !["main"] = "init"]
     ELSE /\ pc' = [pc EXCEPT !["main"] = "ctor_raised"]
          /\ UNCHANGED check_interval_minutes
  /\ interval' = Nothing
  /\ UNCHANGED <<api_key, api_provider, manager>>
  /\ LaunchFrame

\* get_api_manager(api_provider, api_key)
GetApiManager ==
  /\ pc["main"] = "factory"
  /\ manager' = CASE Lower(api_provider) = "openai" -> "OpenAIRealtimeManager"
                  [] Lower(api_provider) = "gemini" -> "GeminiLiveManager"
                  [] OTHER -> "ValueError"
  /\ pc' = [pc EXCEPT !["main"] = "exited"]
  /\ UNCHANGED <<interval, api_key, check_interval_minutes, api_provider>>
  /\ LaunchFrame

\* one of the two programs is run, or get_api_manager is called, in an
\* environment with or without a key
InitLaunch ==
  /\ AgentNew /\ ToolIdle /\ LibIdle
  /\ \E prog \in {"cli", "launcher", "factory"} :
        /\ pc = [t \in Threads |-> IF t = "main" THEN prog ELSE "off"]
        /\ api_provider \in (IF prog = "factory" THEN ProviderNames ELSE {"openai"})
  /\ api_key \in {Nothing, Some(""), Some("key")}
  /\ interval = Nothing /\ check_interval_minutes = Nothing
  /\ manager = "none"

NextLaunch ==
  \/ CliMain \/ LauncherMain \/ Construct \/ GetApiManager
  \/ Next

SpecLaunch == InitLaunch /\ [][NextLaunch]_vars

\* ------------------------------------------------ ToolHandler (api_manager.py)
\* The batch dispatcher, run against the socket adapter (OpenAIRealtimeManager):
\* send_tool_response writes to the websocket and raises when it is not open.
\* A tool call is its name, whether its arguments are a dict ("dict") or some
\* other JSON value ("bad", on which args.get raises) and, for Sound_Alarm,
\* the urgency key of the dict ("missing" when absent); its call_id is its
\* position in the batch.
Urgencies == {"high", "medium", "low", "other", "missing"}
ToolCallSet ==
  {[name |-> "Disconnect_Socket", urgency |-> "none", args |-> a] : a \in {"dict", "bad"}}
  \cup {[name |-> "Foo", urgency |-> "none", args |-> "dict"]}
  \cup {[name |-> "Sound_Alarm", urgency |-> u, args |-> "dict"] : u \in Urgencies}
  \cup {[name |-> "Sound_Alarm", urgency |-> "none", args |-> "bad"]}
Batches == UNION {[1..n -> ToolCallSet] : n \in 1..MaxBatch}

\* args.get('urgency', 'medium')
ArgUrgency(call) == IF call.urgency = "missing" THEN "medium" ELSE call.urgency

\* the result of an unknown function: {"error": f"Unknown function: {name}"}
UnknownFunction(name) == [error |-> "Unknown function: " \o name]
\* the result of a call whose handler raised: {"error": str(e)}
HandlerError == [error |-> "exception"]
DisconnectAck == [status |-> "success", message |-> "Socket will be disconnected"]
AlarmOk == [status |-> "success", message |-> "Alarm sounded"]
ToolResult(i, r) == [call_id |-> i, result |-> r]

\* _sound_alarm: the presentation chosen for an urgency
\* _sound_alarm with its elif branch removed
SoundAlarmTwoWay(urgency) ==
  IF urgency = "high" THEN "HIGH PRIORITY ALARM" ELSE "Gentle reminder"

SoundAlarm(urgency) ==
  IF urgency = "high" THEN "HIGH PRIORITY ALARM"
  ELSE IF urgency = "medium" THEN "ATTENTION NEEDED"
  ELSE "Gentle reminder"

\* a batch of tool calls is handed to handle_function_call: results = []
InitTools ==
  /\ AgentInit /\ LibIdle
  /\ tool_calls \in Batches
  /\ idx = 1 /\ results = <<>> /\ tpc = "loop"
  /\ wire = <<>> /\ notified = <<>> /\ ended = 0 /\ am_open = TRUE

\* handle_function_call without the return that follows _handle_disconnect_tool
DisconnectToolFallsThrough ==
  /\ tpc' = "loop"
  /\ idx' = idx + 1

\* the statement after _handle_disconnect_tool has returned: return
AfterDisconnectTool ==
  /\ tpc' = "returned"
  /\ UNCHANGED idx

\* the end of one loop iteration
NextCall == idx' = idx + 1 /\ UNCHANGED tpc

\* handle_function_call without its except clause: the exception of the
\* handler leaves the dispatcher
HandlerRaisesOut ==
  /\ tpc' = "raised"
  /\ UNCHANGED <<idx, results>>

\* except Exception: an error result for the call is appended, and the loop
\* goes on with the next call
HandlerExcept ==
  /\ results' = Append(results, ToolResult(idx, HandlerError))
  /\ NextCall

\* send_tool_response called once per result instead of once per batch
SendEachSeparately(rs) ==
  wire' = wire \o [n \in 1..Len(rs) |-> <<rs[n]>>]

\* voice_agent.api_manager.send_tool_response(rs): one call carrying rs
SendToolResponse(rs) ==
  wire' = Append(wire, rs)

\* one iteration of the loop over tool_calls, up to its first wait
ToolDispatch ==
  /\ tpc = "loop" /\ idx <= Len(tool_calls)
  /\ LET call == tool_calls[idx] IN
     \/ /\ call.name = "Disconnect_Socket" /\ call.args = "dict"
        /\ should_disconnect' = TRUE
        /\ disconnect_reason' = "tool"
        /\ UNCHANGED <<alarm_triggered, notified>>
        /\ IF am_open
           THEN \* the acknowledgement is sent; sleep(10) begins
                /\ SendToolResponse(<<ToolResult(idx, DisconnectAck)>>)
                /\ tpc' = "grace"
                /\ UNCHANGED <<idx, results>>
           ELSE \* the send raises
                /\ HandlerExcept
                /\ UNCHANGED wire
     \/ /\ call.name = "Sound_Alarm" /\ call.args = "dict"
        /\ alarm_triggered' = TRUE
        /\ notified' = Append(notified, [call_id |-> idx, shown |-> SoundAlarm(ArgUrgency(call))])
        /\ results' = Append(results, ToolResult(idx, AlarmOk))
        /\ NextCall
        /\ UNCHANGED <<should_disconnect, disconnect_reason, wire>>
     \/ \* args.get raises in the first statement of the handler
        /\ call.name \in {"Disconnect_Socket", "Sound_Alarm"} /\ call.args = "bad"
        /\ HandlerExcept
        /\ UNCHANGED <<agentFlags, notified, wire>>
     \/ /\ call.name \notin {"Disconnect_Socket", "Sound_Alarm"}
        /\ results' = Append(results, ToolResult(idx, UnknownFunction(call.name)))
        /\ NextCall
        /\ UNCHANGED <<agentFlags, notified, wire>>
  /\ UNCHANGED <<tool_calls, ended, am_open, libVars>>
  /\ UNCHANGED <<is_running, websocket, streams, conn, ctl, runInfo, lastSend, info,
                 launchVars, fbVars>>

\* voice_agent.disconnect() of the agent that owns the adapter: afterwards
\* the adapter is not connected
VoiceAgentDisconnect == am_open' = FALSE

\* sleep(10) ends: voice_agent.disconnect(), and _handle_disconnect_tool returns
ToolGraceElapsed ==
  /\ tpc = "grace"
  /\ VoiceAgentDisconnect
  /\ ended' = idx
  /\ AfterDisconnectTool
  /\ UNCHANGED <<tool_calls, results, wire, notified, agentVars, libVars>>

\* after the loop: "if results: send_tool_response(results)"
ToolFinish ==
  /\ tpc = "loop" /\ idx > Len(tool_calls)
  /\ IF results = <<>>
     THEN tpc' = "returned" /\ UNCHANGED wire
     ELSE IF am_open
          THEN tpc' = "returned" /\ SendToolResponse(results)
          ELSE tpc' = "raised" /\ UNCHANGED wire
  /\ UNCHANGED <<tool_calls, idx, results, notified, ended, am_open, agentVars, libVars>>

\* the connection is lost while the batch is being handled
ToolPeerClose ==
  /\ tpc \in {"loop", "grace"} /\ am_open
  /\ am_open' = FALSE
  /\ UNCHANGED <<tool_calls, idx, results, tpc, wire, notified, ended, agentVars, libVars>>

NextTools == ToolDispatch \/ ToolGraceElapsed \/ ToolFinish \/ ToolPeerClose

SpecTools == InitTools /\ [][NextTools]_vars

\* ---------------------------------------------------------------------------
\* The conversation log: process_realtime_event's two text branches and
\* add_to_history (ConversationManager.add_to_history is the same function).
\* ---------------------------------------------------------------------------

\* if len(self.conversation_history) > 500
HistoryLimit == 500

\* the two event types that carry text.  The text of an event is modelled by
\* its arrival number, 0 standing for the empty string.
TextDone == "response.text.done"
TranscriptionCompleted == "conversation.item.input_audio_transcription.completed"
TextEventShapes ==
  {[type |-> ty, empty |-> e] : ty \in {TextDone, TranscriptionCompleted}, e \in BOOLEAN}

\* the events arrive in shapes that repeat with period PatternLen
ShapeAt(n) == pattern[((n - 1) % PatternLen) + 1]

\* self.conversation_history[:500], the newest turns dropped instead
KeepOldest(h) ==
  IF Len(h) > HistoryLimit THEN SubSeq(h, 1, HistoryLimit) ELSE h

\* if len(h) > 500: h = h[-500:]
KeepLast(h) ==
  IF Len(h) > HistoryLimit THEN SubSeq(h, Len(h) - HistoryLimit + 1, Len(h)) ELSE h

\* add_to_history(role, content); the timestamp is left out
AddToHistory(role, content) ==
  conversation_history' =
    KeepLast(Append(conversation_history, [role |-> role, content |-> content]))

InitHistory ==
  /\ AgentInit /\ ToolIdle /\ ConvIdle /\ AdIdle
  /\ conversation_history = <<>> /\ arrived = <<>>
  /\ history_prompt = Nothing
  /\ pattern \in [1..PatternLen -> TextEventShapes]

\* the event that arrives next
NextEvent ==
  LET n == Len(arrived) + 1 IN
  [type |-> ShapeAt(n).type, text |-> IF ShapeAt(n).empty THEN 0 ELSE n]

\* elif event_type == 'response.text.done'
ResponseTextDone ==
  /\ Len(arrived) < MaxAppends
  /\ NextEvent.type = TextDone
  /\ arrived' = Append(arrived, NextEvent)
  /\ IF NextEvent.text # 0
     THEN AddToHistory("assistant", NextEvent.text)
     ELSE UNCHANGED conversation_history
  /\ history_prompt' = Nothing
  /\ UNCHANGED <<pattern, agentVars, toolVars, convVars, adVars>>

\* elif event_type == 'conversation.item.input_audio_transcription.completed'
InputTranscriptionCompleted ==
  /\ Len(arrived) < MaxAppends
  /\ NextEvent.type = TranscriptionCompleted
  /\ arrived' = Append(arrived, NextEvent)
  /\ IF NextEvent.text # 0
     THEN AddToHistory("user", NextEvent.text)
     ELSE UNCHANGED conversation_history
  /\ history_prompt' = Nothing
  /\ UNCHANGED <<pattern, agentVars, toolVars, convVars, adVars>>

\* the number of turns given to the prompt
PromptTurns == 10

\* str.title() of a role
Title(role) ==
  CASE role = "user" -> "User"
    [] role = "assistant" -> "Assistant"
    [] OTHER -> role

\* the first and the last line of the block, and the line of one turn
SummaryHeader == [role |-> "--- Previous Conversation Summary ---", content |-> 0]
SummaryFooter == [role |-> "--- End of Conversation Summary ---", content |-> 0]
SummaryLine(msg) == [role |-> Title(msg["role"]), content |-> msg["content"]]

\* self.conversation_history[:10], the oldest turns instead of the newest
OldestTurns(h) ==
  IF Len(h) > PromptTurns THEN SubSeq(h, 1, PromptTurns) ELSE h

\* self.conversation_history[-10:]
RecentHistory(h) ==
  IF Len(h) > PromptTurns THEN SubSeq(h, Len(h) - PromptTurns + 1, Len(h)) ELSE h

\* format_history_for_prompt: the block as the sequence of its lines, the
\* empty sequence standing for the empty string
FormatHistoryForPrompt(h) ==
  IF h = <<>> THEN <<>>
  ELSE LET recent_history == RecentHistory(h) IN
       <<SummaryHeader>>
         \o [i \in 1..Len(recent_history) |-> SummaryLine(recent_history[i])]
         \o <<SummaryFooter>>

\* configure_session: history_prompt = self._format_history_for_prompt()
ConfigureSessionPrompt ==
  /\ history_prompt = Nothing
  /\ history_prompt' = Some(FormatHistoryForPrompt(conversation_history))
  /\ UNCHANGED <<conversation_history, arrived, pattern>>
  /\ UNCHANGED <<agentVars, toolVars, convVars, adVars>>

NextHistory == ResponseTextDone \/ InputTranscriptionCompleted \/ ConfigureSessionPrompt

SpecHistory == InitHistory /\ [][NextHistory]_vars

\* ---------------------------------------------------------------------------
\* The receive paths of the two adapters: OpenAIRealtimeManager
\* .receive_messages / _convert_openai_message and GeminiLiveManager
\* ._receive_loop / receive_messages, given the same provider events.
\* ---------------------------------------------------------------------------

\* an optional value: Nothing is Python's None, Some(v) a value that is set
\* base64 of up to three bytes: four sextets, Pad standing for '='
Pad == 64
B64Group(b) ==
  LET at(i) == IF i <= Len(b) THEN b[i] ELSE 0
      n == at(1) * 65536 + at(2) * 256 + at(3)
      s == <<n \div 262144, (n \div 4096) % 64, (n \div 64) % 64, n % 64>>
  IN IF Len(b) = 0 THEN <<>>
     ELSE [i \in 1..4 |-> IF i > Len(b) + 1 THEN Pad ELSE s[i]]

\* base64.b64decode of one group
B64Decode(s) ==
  IF Len(s) = 0 THEN <<>>
  ELSE LET v(i) == IF s[i] = Pad THEN 0 ELSE s[i]
           n == v(1) * 262144 + v(2) * 4096 + v(3) * 64 + v(4)
           k == IF s[3] = Pad THEN 1 ELSE IF s[4] = Pad THEN 2 ELSE 3
           all == <<n \div 65536, (n \div 256) % 256, n % 256>>
       IN SubSeq(all, 1, k)

\* a dict is a function from its keys; its JSON text is the sequence of its
\* key/value pairs
RECURSIVE JsonDumps(_)
JsonDumps(dict) ==
  IF DOMAIN dict = {} THEN <<>>
  ELSE LET k == CHOOSE x \in DOMAIN dict : TRUE
       IN <<<<k, dict[k]>>>> \o JsonDumps([x \in DOMAIN dict \ {k} |-> dict[x]])

\* json.loads: the last pair of a key wins
JsonLoads(text) ==
  LET keys == {text[i][1] : i \in 1..Len(text)}
      last(k) == CHOOSE i \in 1..Len(text) :
                   text[i][1] = k /\ \A j \in (i + 1)..Len(text) : text[j][1] # k
  IN [k \in keys |-> text[last(k)][2]]

\* what a provider can deliver: an audio chunk, a text chunk, one tool call
EmptyArgs == [k \in {} |-> ""]
AudioChunks == {<<>>, <<72, 105>>}
TextChunks == {"", "hello"}
ArgDicts == {EmptyArgs, [k \in {"urgency", "reason"} |-> IF k = "urgency" THEN "high" ELSE "idle"]}
ProviderEvents ==
  {[kind |-> "audio", bytes |-> b] : b \in AudioChunks}
  \cup {[kind |-> "text", text |-> t] : t \in TextChunks}
  \cup {[kind |-> "tool", name |-> n, args |-> a, id |-> "call_1"] :
          n \in {"Sound_Alarm", "Disconnect_Socket"}, a \in ArgDicts}
EventRuns == UNION {[1..n -> ProviderEvents] : n \in 1..MaxEvents}
\* what a provider delivers besides: the notice that the session exists, and
\* an error report
NoticeEvents == {[kind |-> "session", id |-> "sess_1"], [kind |-> "error"]}
AllEventRuns == UNION {[1..n -> ProviderEvents \cup NoticeEvents] : n \in 1..MaxEvents}

\* the event as the OpenAI Realtime API delivers it (after json.loads of the
\* frame): the session is configured with modalities text and audio, so the
\* assistant's text arrives as the transcript of its audio
OpenAIEvent(ev) ==
  IF ev.kind = "audio"
  THEN [type |-> "response.audio.delta", delta |-> B64Group(ev.bytes)]
  ELSE IF ev.kind = "text"
  THEN [type |-> "response.audio_transcript.done", transcript |-> ev.text]
  ELSE IF ev.kind = "session"
  THEN [type |-> "session.created", session |-> [id |-> ev.id]]
  ELSE IF ev.kind = "error"
  THEN [type |-> "error"]
  ELSE [type |-> "response.function_call_arguments.done", name |-> ev.name,
        arguments |-> JsonDumps(ev.args), call_id |-> ev.id]

\* the event as the google-genai session delivers it: a response object (the
\* session notice is a response with setup_complete only; an error report
\* has no response of its own and arrives with no payload field set)
GeminiResponse(ev) ==
  [data |-> IF ev.kind = "audio" THEN ev.bytes ELSE <<>>,
   text |-> IF ev.kind = "text" THEN ev.text ELSE "",
   function_calls |-> IF ev.kind = "tool"
                      THEN <<[name |-> ev.name, args |-> ev.args, id |-> ev.id]>>
                      ELSE <<>>]

APIMessage(message_type, content, audio_data, calls, metadata) ==
  [message_type |-> message_type, content |-> content, audio_data |-> audio_data,
   tool_calls |-> calls, metadata |-> metadata]

\* str(event) of an error event
StrOfEvent(event) == "{'type': 'error'}"

\* a conversion whose audio message also carries the base64 text as content
ConvertKeepsDeltaText(event) ==
  IF event.type = "response.audio.delta"
  THEN IF event.delta # <<>>
       THEN <<APIMessage("audio", Some("delta"), Some(B64Decode(event.delta)), Nothing, {})>>
       ELSE <<>>
  ELSE IF event.type = "response.audio_transcript.done"
  THEN IF event.transcript # ""
       THEN <<APIMessage("text", Some(event.transcript), Nothing, Nothing, {"is_assistant"})>>
       ELSE <<>>
  ELSE IF event.type = "response.function_call_arguments.done"
  THEN <<APIMessage("tool_call", Nothing, Nothing,
                    Some(<<[name |-> event.name,
                            arguments |-> JsonLoads(event.arguments),
                            call_id |-> event.call_id]>>), {})>>
  ELSE IF event.type = "error"
  THEN <<APIMessage("error", Some(StrOfEvent(event)), Nothing, Nothing, {})>>
  ELSE IF event.type = "session.created"
  THEN <<APIMessage("session_update", Nothing, Nothing, Nothing, {"session_id"})>>
  ELSE <<>>

\* _convert_openai_message: the messages it returns for one event (none when
\* it returns None)
ConvertOpenAIMessage(event) ==
  IF event.type = "response.audio.delta"
  THEN IF event.delta # <<>>
       THEN <<APIMessage("audio", Nothing, Some(B64Decode(event.delta)), Nothing, {})>>
       ELSE <<>>
  ELSE IF event.type = "response.audio_transcript.done"
  THEN IF event.transcript # ""
       THEN <<APIMessage("text", Some(event.transcript), Nothing, Nothing, {"is_assistant"})>>
       ELSE <<>>
  ELSE IF event.type = "response.function_call_arguments.done"
  THEN <<APIMessage("tool_call", Nothing, Nothing,
                    Some(<<[name |-> event.name,
                            arguments |-> JsonLoads(event.arguments),
                            call_id |-> event.call_id]>>), {})>>
  ELSE IF event.type = "error"
  THEN <<APIMessage("error", Some(StrOfEvent(event)), Nothing, Nothing, {})>>
  ELSE IF event.type = "session.created"
  THEN <<APIMessage("session_update", Nothing, Nothing, Nothing, {"session_id"})>>
  ELSE <<>>

\* 'call_id': fc.name, whatever id the call carries
CallIdIsName(fc) == fc.name

\* 'call_id': fc.id if hasattr(fc, 'id') else fc.name
GeminiCallId(fc) == IF "id" \in DOMAIN fc THEN fc.id ELSE fc.name

\* the body of _receive_loop for one response: the messages it queues
GeminiQueued(response) ==
  (IF response.data # <<>>
   THEN <<APIMessage("audio", Nothing, Some(response.data), Nothing, {})>>
   ELSE <<>>)
  \o (IF response.text # ""
      THEN <<APIMessage("text", Some(response.text), Nothing, Nothing, {"is_assistant"})>>
      ELSE <<>>)
  \o [n \in 1..Len(response.function_calls) |->
        LET fc == response.function_calls[n] IN
        APIMessage("tool_call", Nothing, Nothing,
                   Some(<<[name |-> fc.name, arguments |-> fc.args,
                           call_id |-> GeminiCallId(fc)]>>), {})]

InitConvert ==
  /\ AgentInit /\ ToolIdle /\ HistIdle /\ AdIdle
  /\ events \in EventRuns
  /\ fed_openai = 0 /\ fed_gemini = 0
  /\ message_queue = <<>> /\ yielded_openai = <<>> /\ yielded_gemini = <<>>

\* OpenAIRealtimeManager.receive_messages: one frame is converted and, if a
\* message comes out, yielded
OpenAIReceive ==
  /\ fed_openai < Len(events)
  /\ fed_openai' = fed_openai + 1
  /\ yielded_openai' =
       yielded_openai \o ConvertOpenAIMessage(OpenAIEvent(events[fed_openai + 1]))
  /\ UNCHANGED <<events, fed_gemini, message_queue, yielded_gemini>>
  /\ UNCHANGED <<agentVars, toolVars, histVars, adVars>>

\* GeminiLiveManager._receive_loop: one response is put on the queue
GeminiReceiveLoop ==
  /\ fed_gemini < Len(events)
  /\ fed_gemini' = fed_gemini + 1
  /\ message_queue' = message_queue \o GeminiQueued(GeminiResponse(events[fed_gemini + 1]))
  /\ UNCHANGED <<events, fed_openai, yielded_openai, yielded_gemini>>
  /\ UNCHANGED <<agentVars, toolVars, histVars, adVars>>

\* GeminiLiveManager.receive_messages: message = await queue.get(); yield
GeminiReceiveMessages ==
  /\ message_queue # <<>>
  /\ yielded_gemini' = Append(yielded_gemini, Head(message_queue))
  /\ message_queue' = Tail(message_queue)
  /\ UNCHANGED <<events, fed_openai, fed_gemini, yielded_openai>>
  /\ UNCHANGED <<agentVars, toolVars, histVars, adVars>>

NextConvert == OpenAIReceive \/ GeminiReceiveLoop \/ GeminiReceiveMessages

SpecConvert == InitConvert /\ [][NextConvert]_vars

\* the same receive paths, given runs that also hold the notices
InitConvertAll ==
  /\ AgentInit /\ ToolIdle /\ HistIdle /\ AdIdle
  /\ events \in AllEventRuns
  /\ fed_openai = 0 /\ fed_gemini = 0
  /\ message_queue = <<>> /\ yielded_openai = <<>> /\ yielded_gemini = <<>>

SpecConvertAll == InitConvertAll /\ [][NextConvert]_vars

\* ---------------------------------------------------------------------------
\* One adapter (OpenAIRealtimeManager or GeminiLiveManager) driven by any
\* caller: its operations in any order, the provider sending frames and
\* dropping the connection, and the caller iterating over receive_messages().
\* A new connection is opened only while no iteration is under way and, for
\* the Gemini manager, while no receive task is running.
\* ---------------------------------------------------------------------------
Providers == {"openai", "gemini"}
Garbage == [kind |-> "garbage"]
Frames == {[kind |-> "text", text |-> "hello"], Garbage}
convRest == <<events, fed_openai, fed_gemini, yielded_openai, yielded_gemini>>
notAdapter == <<agentVars, toolVars, histVars, convRest>>

\* the adapter's fields, as a caller can observe them
AdapterState == <<session, is_connected, session_context, receive_task, alive>>

\* the call op was made in the current state and came out as outcome; effect
\* tells whether it sent, opened or closed anything
Call(op, outcome, effect, frame) ==
  last_op' = [op |-> op, outcome |-> outcome, connected |-> is_connected,
              held |-> session = "set", effect |-> effect, frame |-> frame,
              before |-> AdapterState]

\* _receive_loop: the message queued on a recognised loss of the connection
ConnectionLostMessage ==
  APIMessage("error", Some("Connection lost - WebSocket timeout"), Nothing, Nothing, {})

InitAdapter ==
  /\ AgentInit /\ ToolIdle /\ HistIdle /\ ConvIdle
  /\ provider \in Providers
  /\ AdapterNew

\* connect(session_token)
AdConnect ==
  /\ consumer # "iterating"
  /\ IF provider = "openai"
     THEN \/ \* websockets.connect returns the connection
             /\ session' = "set" /\ is_connected' = TRUE
             /\ alive' = TRUE /\ inbox' = <<>>
             /\ Call("connect", "returned", TRUE, "none")
          \/ \* the handshake fails: logged and raised again
             /\ Call("connect", "raised", FALSE, "none")
             /\ UNCHANGED <<session, is_connected, alive, inbox>>
     ELSE /\ is_connected' = TRUE
          /\ Call("connect", "returned", FALSE, "none")
          /\ UNCHANGED <<session, alive, inbox>>
  /\ UNCHANGED <<old_queued, provider, session_context, receive_task, provided, consumer,
                 message_queue, notAdapter>>

\* configure_session(system_prompt, tools)
AdConfigureSession ==
  /\ IF provider = "openai"
     THEN /\ IF session = "set" /\ alive
             THEN Call("configure_session", "returned", TRUE, "none")
             ELSE Call("configure_session", "raised", FALSE, "none")
          /\ UNCHANGED <<session, session_context, receive_task, alive, inbox,
                         old_queued>>
     ELSE /\ consumer # "iterating" /\ receive_task # "running"
          /\ \/ \* live.connect(...).__aenter__() returns the session
                /\ session_context' = TRUE /\ session' = "set"
                /\ alive' = TRUE /\ inbox' = <<>>
                /\ receive_task' = "running"
                /\ old_queued' = Len(message_queue)
                /\ Call("configure_session", "returned", TRUE, "none")
             \/ \* __aenter__ raises
                /\ session_context' = TRUE
                /\ Call("configure_session", "raised", FALSE, "none")
                /\ UNCHANGED <<session, receive_task, alive, inbox, old_queued>>
  /\ UNCHANGED <<provider, is_connected, provided, consumer, message_queue, notAdapter>>

\* send_audio(audio_data); signal tells whether the chunk is above the
\* silence threshold of the Gemini manager
AdSendAudio(signal) ==
  /\ IF session = "none"
     THEN Call("send_audio", "returned", FALSE, "none")
     ELSE IF provider = "gemini" /\ ~signal
     THEN Call("send_audio", "returned", FALSE, "none")
     ELSE IF alive
     THEN Call("send_audio", "returned", TRUE, "none")
     ELSE IF provider = "openai"
     THEN Call("send_audio", "raised", FALSE, "none")
     ELSE \* a recognised loss is logged, anything else raised
          \/ Call("send_audio", "returned", FALSE, "none")
          \/ Call("send_audio", "raised", FALSE, "none")
  /\ UNCHANGED <<old_queued, provider, session, is_connected, session_context, receive_task,
                 alive, inbox, provided, consumer, message_queue, notAdapter>>

\* send_text(text): neither manager looks at the handle first
AdSendText ==
  /\ IF session = "set" /\ alive
     THEN Call("send_text", "returned", TRUE, "none")
     ELSE Call("send_text", "raised", FALSE, "none")
  /\ UNCHANGED <<old_queued, provider, session, is_connected, session_context, receive_task,
                 alive, inbox, provided, consumer, message_queue, notAdapter>>

\* send_tool_response(tool_responses), n being the number of responses
AdSendToolResponse(n) ==
  /\ IF provider = "gemini" /\ session = "none"
     THEN Call("send_tool_response", "returned", FALSE, "none")
     ELSE IF n = 0
     THEN Call("send_tool_response", "returned", FALSE, "none")
     ELSE IF session = "set" /\ alive
     THEN Call("send_tool_response", "returned", TRUE, "none")
     ELSE Call("send_tool_response", "raised", FALSE, "none")
  /\ UNCHANGED <<old_queued, provider, session, is_connected, session_context, receive_task,
                 alive, inbox, provided, consumer, message_queue, notAdapter>>

\* disconnect() of the Gemini manager without the try/except around __aexit__
AexitUnguarded == IF alive THEN "returned" ELSE "raised"

\* try: await self._session_context.__aexit__(None, None, None)
\* except Exception: logged
AexitGuarded == "returned"

\* disconnect()
AdDisconnect ==
  /\ IF provider = "openai"
     THEN /\ IF session = "set"
             THEN /\ session' = "none" /\ is_connected' = FALSE /\ alive' = FALSE
                  /\ Call("disconnect", "returned", TRUE, "none")
             ELSE /\ Call("disconnect", "returned", FALSE, "none")
                  /\ UNCHANGED <<session, is_connected, alive>>
          /\ UNCHANGED <<session_context, receive_task>>
     ELSE /\ receive_task' = IF receive_task = "running" THEN "cancelled" ELSE receive_task
          /\ IF session_context /\ session = "set"
             THEN IF AexitGuarded = "returned"
                  THEN /\ session' = "none" /\ session_context' = FALSE
                       /\ alive' = FALSE /\ is_connected' = FALSE
                       /\ Call("disconnect", "returned", TRUE, "none")
                  ELSE /\ Call("disconnect", "raised", FALSE, "none")
                       /\ UNCHANGED <<session, session_context, alive, is_connected>>
             ELSE /\ is_connected' = FALSE
                  /\ Call("disconnect", "returned", FALSE, "none")
                  /\ UNCHANGED <<session, session_context, alive>>
  /\ UNCHANGED <<old_queued, provider, inbox, provided, consumer, message_queue, notAdapter>>

\* the caller starts iterating over receive_messages()
AdReceiveMessages ==
  /\ consumer # "iterating"
  /\ IF provider = "openai" /\ session = "none"
     THEN \* async for message in None
          /\ consumer' = "raised"
          /\ Call("receive_messages", "raised", FALSE, "none")
     ELSE /\ consumer' = "iterating"
          /\ Call("receive_messages", "waiting", FALSE, "none")
  /\ UNCHANGED <<old_queued, provider, session, is_connected, session_context, receive_task,
                 alive, inbox, provided, message_queue, notAdapter>>

\* OpenAIRealtimeManager.receive_messages: one turn of its async for
OpenAINext ==
  /\ provider = "openai" /\ consumer = "iterating"
  /\ IF inbox # <<>>
     THEN /\ inbox' = Tail(inbox)
          /\ IF Head(inbox) = Garbage
             THEN \* json.loads raises inside the generator
                  /\ consumer' = "raised"
                  /\ Call("next", "raised", FALSE, "garbage")
             ELSE /\ UNCHANGED consumer
                  /\ LET out == ConvertOpenAIMessage(OpenAIEvent(Head(inbox))) IN
                     IF out = <<>>
                     THEN Call("next", "skipped", FALSE, "none")
                     ELSE Call("next", "yielded", FALSE, out[1].message_type)
     ELSE \* the connection is closed: the iteration ends, normally or with
          \* ConnectionClosedError
          /\ ~alive
          /\ UNCHANGED inbox
          /\ \/ consumer' = "ended" /\ Call("next", "ended", FALSE, "none")
             \/ consumer' = "raised" /\ Call("next", "raised", FALSE, "none")
  /\ UNCHANGED <<old_queued, provider, session, is_connected, session_context, receive_task,
                 alive, provided, message_queue, notAdapter>>

\* GeminiLiveManager._receive_loop: one response, or the exception that ends it
GeminiLoopStep ==
  /\ provider = "gemini" /\ receive_task = "running"
  /\ IF inbox # <<>>
     THEN /\ inbox' = Tail(inbox)
          /\ IF Head(inbox) = Garbage
             THEN \* not a recognised loss: raise KeyboardInterrupt
                  /\ receive_task' = "failed"
                  /\ Call("loop", "raised", FALSE, "garbage")
                  /\ UNCHANGED message_queue
             ELSE /\ message_queue' = message_queue \o GeminiQueued(GeminiResponse(Head(inbox)))
                  /\ Call("loop", "queued", FALSE, "none")
                  /\ UNCHANGED receive_task
     ELSE /\ ~alive
          /\ UNCHANGED inbox
          /\ \/ \* keepalive ping timeout / ConnectionClosedError
                /\ message_queue' = Append(message_queue, ConnectionLostMessage)
                /\ receive_task' = "ended"
                /\ Call("loop", "queued", FALSE, "none")
             \/ /\ receive_task' = "failed"
                /\ Call("loop", "raised", FALSE, "none")
                /\ UNCHANGED message_queue
  /\ UNCHANGED <<old_queued, provider, session, is_connected, session_context, alive, provided,
                 consumer, notAdapter>>

\* GeminiLiveManager.receive_messages: message = await queue.get(); yield
GeminiNext ==
  /\ provider = "gemini" /\ consumer = "iterating"
  /\ message_queue # <<>>
  /\ message_queue' = Tail(message_queue)
  /\ old_queued' = IF old_queued > 0 THEN old_queued - 1 ELSE 0
  /\ Call("next", "yielded", FALSE, Head(message_queue).message_type)
  /\ UNCHANGED <<provider, session, is_connected, session_context, receive_task,
                 alive, inbox, provided, consumer, notAdapter>>

\* the task that iterates is cancelled by its owner
CancelConsumer ==
  /\ consumer = "iterating"
  /\ consumer' = IF provider = "gemini" THEN "ended" ELSE "cancelled"
  /\ last_op' = NoOp
  /\ UNCHANGED <<old_queued, provider, session, is_connected, session_context, receive_task,
                 alive, inbox, provided, message_queue, notAdapter>>

\* the provider sends one frame
ProviderSends(f) ==
  /\ alive /\ provided < MaxProvided
  /\ inbox' = Append(inbox, f)
  /\ provided' = provided + 1
  /\ last_op' = NoOp
  /\ UNCHANGED <<old_queued, provider, session, is_connected, session_context, receive_task,
                 alive, consumer, message_queue, notAdapter>>

\* the connection is lost (closed by the provider, keep-alive timeout)
ConnectionLost ==
  /\ alive /\ provided < MaxProvided
  /\ alive' = FALSE
  /\ provided' = provided + 1
  /\ last_op' = NoOp
  /\ UNCHANGED <<old_queued, provider, session, is_connected, session_context, receive_task,
                 inbox, consumer, message_queue, notAdapter>>

\* the steps of the receive path itself
ReceivePathStep == OpenAINext \/ GeminiLoopStep \/ GeminiNext

NextAdapter ==
  \/ AdConnect \/ AdConfigureSession \/ AdSendText \/ AdDisconnect
  \/ (\E signal \in BOOLEAN : AdSendAudio(signal))
  \/ (\E n \in 0..1 : AdSendToolResponse(n))
  \/ AdReceiveMessages \/ OpenAINext \/ GeminiLoopStep \/ GeminiNext
  \/ CancelConsumer \/ ConnectionLost
  \/ (\E f \in Frames : ProviderSends(f))

SpecAdapter == InitAdapter /\ [][NextAdapter]_vars

\* ---------------------------------------------------------------------------
\* AudioFeedbackManager (audio_feedback_manager.py) driven by any caller: AI
\* audio arriving and ending, the manual mute, the push-to-talk key, the
\* clock, and microphone chunks given to process_microphone_audio.
\* ---------------------------------------------------------------------------
Delays == 0..MaxDelay

FbFrame == UNCHANGED <<strategy, ai_speech_delay, agentCore, toolVars, libVars>>

\* mark_ai_speaking_end that leaves last_ai_audio_time at the last AI audio
MarkEndKeepsAudioTime ==
  /\ IF ai_is_speaking
     THEN /\ ai_is_speaking' = FALSE
          /\ finished_at' = Some(clock)
          /\ UNCHANGED last_ai_audio_time
     ELSE UNCHANGED <<ai_is_speaking, last_ai_audio_time, finished_at>>
  /\ processed_audio' = "none"
  /\ UNCHANGED <<microphone_muted, push_to_talk_pressed, manual_mute, clock>>
  /\ FbFrame

\* mark_ai_speaking_start
MarkAiSpeakingStart ==
  /\ ai_is_speaking' = TRUE
  /\ microphone_muted' = TRUE
  /\ last_ai_audio_time' = clock
  /\ finished_at' = Nothing
  /\ processed_audio' = "none"
  /\ UNCHANGED <<push_to_talk_pressed, manual_mute, clock>>
  /\ FbFrame

\* mark_ai_speaking_end
MarkAiSpeakingEnd ==
  /\ IF ai_is_speaking
     THEN /\ ai_is_speaking' = FALSE
          /\ last_ai_audio_time' = clock
          /\ finished_at' = Some(clock)
     ELSE UNCHANGED <<ai_is_speaking, last_ai_audio_time, finished_at>>
  /\ processed_audio' = "none"
  /\ UNCHANGED <<microphone_muted, push_to_talk_pressed, manual_mute, clock>>
  /\ FbFrame

\* set_manual_mute(muted)
SetManualMute ==
  /\ \E muted \in BOOLEAN : manual_mute' = muted
  /\ processed_audio' = "none"
  /\ UNCHANGED <<ai_is_speaking, microphone_muted, last_ai_audio_time,
                 push_to_talk_pressed, clock, finished_at>>
  /\ FbFrame

\* on_key_event of the keyboard hook: the key goes down or up
OnKeyEvent ==
  /\ strategy = "push_to_talk"
  /\ \E down \in BOOLEAN : push_to_talk_pressed' = down
  /\ processed_audio' = "none"
  /\ UNCHANGED <<ai_is_speaking, microphone_muted, last_ai_audio_time,
                 manual_mute, clock, finished_at>>
  /\ FbFrame

\* should_process_microphone_input reaches the smart_muting unmute test
ReachesUnmute ==
  /\ ~manual_mute /\ strategy = "smart_muting"
  /\ ~ai_is_speaking
  /\ ~(clock - last_ai_audio_time < ai_speech_delay)

\* self.microphone_muted when should_process_microphone_input returns
MutedAfter ==
  IF ReachesUnmute /\ microphone_muted
        /\ clock - last_ai_audio_time >= ai_speech_delay
  THEN FALSE ELSE microphone_muted

\* what should_process_microphone_input returns
ShouldProcessMicrophoneInput ==
  IF manual_mute THEN FALSE
  ELSE CASE strategy = "api_handled" -> TRUE
         [] strategy = "push_to_talk" -> push_to_talk_pressed
         [] strategy = "smart_muting" ->
              IF ai_is_speaking THEN FALSE
              ELSE IF clock - last_ai_audio_time < ai_speech_delay THEN FALSE
              ELSE ~MutedAfter
         [] strategy = "echo_cancellation" -> TRUE
         [] OTHER -> TRUE

\* process_microphone_audio(audio_data): None, or the chunk to be sent
ProcessMicrophoneAudio ==
  /\ processed_audio' = IF ShouldProcessMicrophoneInput THEN "forwarded"
                                                        ELSE "suppressed"
  /\ microphone_muted' = MutedAfter
  /\ UNCHANGED <<ai_is_speaking, last_ai_audio_time, push_to_talk_pressed,
                 manual_mute, clock, finished_at>>
  /\ FbFrame

\* time passes
Tick ==
  /\ clock < MaxClock
  /\ clock' = clock + 1
  /\ processed_audio' = "none"
  /\ UNCHANGED <<ai_is_speaking, microphone_muted, last_ai_audio_time,
                 push_to_talk_pressed, manual_mute, finished_at>>
  /\ FbFrame

InitFeedback ==
  /\ AgentFields
  /\ pc = [t \in Threads |-> IF t = "main" THEN "init" ELSE "off"]
  /\ Constructed
  /\ ToolIdle /\ LibIdle
  /\ \E s \in Strategies, delay \in Delays, keyboard \in BOOLEAN :
       FeedbackNew(s, delay, keyboard)

NextFeedback ==
  \/ MarkAiSpeakingStart \/ MarkAiSpeakingEnd \/ SetManualMute \/ OnKeyEvent
  \/ ProcessMicrophoneAudio \/ Tick

SpecFeedback == InitFeedback /\ [][NextFeedback]_vars

\* ===================================================================== claims
NoCycleInProgress == \A t \in Threads : ~InCycle(t)

\* C1: at most one check-in cycle is in progress at any time: the cycle that
\* start() runs and a cycle of the timer thread are never both between the
\* entry of perform_check_in_cycle and its return.
C1_OneCycleAtATime == ~(InCycle("main") /\ InCycle("timer"))

\* C2: a cycle that reached the 120 s ceiling without a Disconnect_Socket or
\* Sound_Alarm call has invoked disconnect by the time it ends (the agent
\* not having been stopped meanwhile).
C2_TimedOutCycleDisconnects ==
  \A t \in Threads :
    (pc[t] = "end" /\ info[t].timedOut /\ ~info[t].tool /\ is_running)
      => info[t].disc >= 1

\* C3: no exception leaves a cycle: a thread never ends up with an exception
\* raised out of perform_check_in_cycle, a cycle that failed has attempted
\* disconnect when it returns, and the timer loop is left only when the agent
\* no longer runs.
C3_CycleNeverRaises ==
  /\ \A t \in Threads : pc[t] # "raised"
  /\ \A t \in Threads : (pc[t] = "end" /\ info[t].failed) => info[t].disc >= 1
  /\ (pc["timer"] = "exit" => ~is_running)

\* a cycle of the timer thread failed, attempted disconnect and is returning
C3_Witness ==
  /\ pc["timer"] = "end" /\ info["timer"].failed /\ info["timer"].disc >= 1
  /\ is_running

\* C4: a cycle in which the grace wait of a Disconnect_Socket call elapsed has
\* invoked disconnect exactly once when it ends, and the agent is then not
\* connected.
C4_DisconnectExactlyOnce ==
  \A t \in Threads :
    (pc[t] = "end" /\ info[t].grace /\ is_running)
      => (info[t].disc = 1 /\ websocket = None)

\* C5: whenever no cycle is in progress (and the agent has been started) the
\* websocket attribute is None and no connection the agent opened is open.
C5_IdleMeansNotConnected ==
  (NoCycleInProgress /\ pc["main"] # "init")
    => (websocket = None /\ \A h \in Handles : ~IsOpen(h))

\* C6: when a cycle ends, every connection that this cycle opened is closed.
C6_OwnHandleClosedAtEnd ==
  \A t \in Threads :
    pc[t] = "end" => \A h \in Handles : opener[h] = cyc[t] => ~IsOpen(h)

\* C7: no two cycles use the same connection: every message a cycle writes
\* goes to a connection that this same cycle opened.
C7_SendsOnlyOnOwnHandle ==
  lastSend.on # None => opener[lastSend.on] = lastSend.by

\* C8: no audio chunk and no greeting message is written to a connection on
\* which session.update has not been sent.
C8_ConfiguredBeforeAudioOrText ==
  lastSend.kind \in {"audio", "greeting", "create"} => lastSend.cfg

\* C9: handling a function call with an unknown name writes a result for that
\* call to the connection.
C9_UnknownToolGetsResult ==
  lastSend.ev = "unknown" => lastSend.kind = "result"

\* a Sound_Alarm call whose handler can run
AlarmCall(call) == call.name = "Sound_Alarm" /\ call.args = "dict"

\* the position of the Disconnect_Socket call of the batch that succeeded
\* (0 if there is none so far)
EndSessionAt == IF ended # 0 THEN ended ELSE IF tpc = "grace" THEN idx ELSE 0

\* C10: once a Disconnect_Socket call of a batch has been handled, no later
\* call of the batch is evaluated, sets alarm_triggered, is notified or gets a
\* result, and every Sound_Alarm call before it has been applied.
C10_NothingAfterEndSession ==
  LET d == EndSessionAt IN
  d # 0 =>
    /\ tool_calls[d].name = "Disconnect_Socket"
    /\ idx = d
    /\ (ended # 0 => tpc = "returned")
    /\ \A n \in 1..Len(notified) : notified[n].call_id < d
    /\ \A n \in 1..Len(results) : results[n].call_id < d
    /\ \A w \in 1..Len(wire) : \A n \in 1..Len(wire[w]) : wire[w][n].call_id <= d
    /\ alarm_triggered = (\E i \in 1..(d - 1) : AlarmCall(tool_calls[i]))
    /\ \A i \in 1..(d - 1) :
         AlarmCall(tool_calls[i]) =>
           \E n \in 1..Len(notified) :
             notified[n] = [call_id |-> i, shown |-> SoundAlarm(ArgUrgency(tool_calls[i]))]

\* a batch Sound_Alarm, Disconnect_Socket, Sound_Alarm has returned after the
\* Disconnect_Socket call: the first alarm was applied, the second was not
C10_Witness ==
  /\ tpc = "returned" /\ ended = 2 /\ Len(tool_calls) = 3
  /\ tool_calls[1].name = "Sound_Alarm" /\ tool_calls[3].name = "Sound_Alarm"
  /\ Len(notified) = 1 /\ notified[1].call_id = 1

\* the handler of call i raised: its arguments are not a dict, or it is a
\* Disconnect_Socket call that was passed over (its acknowledgement could not
\* be sent)
HandlerRaised(i) ==
  tool_calls[i].args = "bad" \/ tool_calls[i].name = "Disconnect_Socket"

UrgencyClass(call) ==
  IF call.urgency = "high" THEN 1
  ELSE IF call.urgency \in {"medium", "missing"} THEN 2
  ELSE 3

\* C12: every Sound_Alarm call whose handler ran set alarm_triggered and
\* showed one notification, and two notifications look the same exactly when
\* their urgencies are in the same class (high / medium or missing / other).
C12_AlarmPresentations ==
  /\ \A i \in 1..(idx - 1) :
       AlarmCall(tool_calls[i]) =>
         /\ alarm_triggered
         /\ \E n \in 1..Len(notified) : notified[n].call_id = i
  /\ \A n, m \in 1..Len(notified) :
       (notified[n].shown = notified[m].shown)
         <=> (UrgencyClass(tool_calls[notified[n].call_id])
                = UrgencyClass(tool_calls[notified[m].call_id]))

C12_Witness ==
  /\ Len(notified) = 3
  /\ tool_calls[1].urgency = "missing"
  /\ tool_calls[2].urgency = "other"
  /\ tool_calls[3].urgency = "high"
  /\ notified[1].shown = "ATTENTION NEEDED"
  /\ notified[2].shown = "Gentle reminder"
  /\ notified[3].shown = "HIGH PRIORITY ALARM"
  /\ alarm_triggered

\* C13: nothing is sent while the calls of a batch are being evaluated; a
\* batch in which no EndSession succeeded is answered by one
\* send_tool_response carrying one result per call, in input order, each with
\* its own call_id; when an EndSession succeeds the only thing sent is its
\* acknowledgement, before the grace wait.
C13_OneBatchSend ==
  /\ tpc = "loop" => wire = <<>>
  /\ (tpc = "returned" /\ ended = 0) =>
       /\ wire = <<results>>
       /\ Len(results) = Len(tool_calls)
       /\ \A i \in 1..Len(results) : results[i].call_id = i
  /\ tpc = "raised" => wire = <<>>
  /\ (tpc = "grace" \/ ended # 0) =>
       wire = << <<ToolResult(idx, DisconnectAck)>> >>

C13_Witness ==
  /\ tpc = "returned" /\ ended = 0
  /\ Len(tool_calls) = 3
  /\ tool_calls[1].name = "Foo"
  /\ tool_calls[3].name = "Foo"
  /\ Len(wire) = 1 /\ Len(wire[1]) = 3
  /\ wire[1][3] = ToolResult(3, UnknownFunction("Foo"))

\* the text events that arrived with a non-empty text, as the turns they
\* should have become: the assistant marker gives role assistant, the user
\* marker role user
CarriesText(e) == e.text # 0
TurnOf(e) ==
  [role |-> IF e.type = TextDone THEN "assistant" ELSE "user", content |-> e.text]
ExpectedTurns ==
  LET evs == SelectSeq(arrived, CarriesText) IN [n \in 1..Len(evs) |-> TurnOf(evs[n])]

AllConsumed ==
  /\ fed_openai = Len(events) /\ fed_gemini = Len(events)
  /\ message_queue = <<>>

\* C15: given the same provider events, the two adapters yield the same
\* sequence of message kinds, and their tool_call messages carry the same
\* name, arguments and call id; while they run, what one has yielded agrees
\* with what the other has yielded so far.
C15_SameKindsFromBothAdapters ==
  /\ \A n \in 1..Len(yielded_openai) :
       n <= Len(yielded_gemini) =>
         /\ yielded_openai[n].message_type = yielded_gemini[n].message_type
         /\ yielded_openai[n].tool_calls = yielded_gemini[n].tool_calls
  /\ AllConsumed => Len(yielded_openai) = Len(yielded_gemini)

C15_Witness ==
  /\ AllConsumed
  /\ Len(events) = 3
  /\ events[1].kind = "audio" /\ events[2].kind = "text" /\ events[3].kind = "tool"
  /\ Len(yielded_openai) = 3 /\ Len(yielded_gemini) = 3
  /\ yielded_gemini[1].message_type = "audio"
  /\ yielded_gemini[2].message_type = "text"
  /\ yielded_gemini[3].message_type = "tool_call"
  /\ yielded_openai[3].tool_calls[1][1].call_id = "call_1"
  /\ yielded_openai[3].tool_calls[1][1].arguments # EmptyArgs

\* C18: when connect_websocket fails, in the handshake or in the
\* configure_session call it makes, no handle is retained: self.websocket is
\* None when the exception leaves it.
C18_FailedConnectKeepsNoHandle ==
  [][\A t \in Threads :
       (pc[t] \in {"connect", "configure"} /\ pc'[t] = "exc") => websocket' = None]_vars

\* C16: an operation other than configure_session that is called while the
\* adapter is not connected returns without raising and without effect, and
\* configure_session called while not connected raises and opens nothing.
C16_NotConnectedOpsAreNoOps ==
  /\ (/\ last_op.op \in {"send_audio", "send_text", "send_tool_response", "receive_messages"}
      /\ ~last_op.connected)
       => (last_op.outcome = "returned" /\ ~last_op.effect)
  /\ (last_op.op = "configure_session" /\ ~last_op.connected)
       => (last_op.outcome = "raised" /\ ~last_op.effect /\ session = "none")

C19_UndecodableFrameDoesNotEndLoop ==
  last_op.frame = "garbage" =>
    /\ last_op.outcome # "raised"
    /\ provider = "openai" => consumer = "iterating"
    /\ provider = "gemini" => receive_task = "running"

\* C20: while the caller iterates over receive_messages() of an adapter whose
\* connection is lost, the receive path can still take a step: deliver what
\* is left, or end the iteration.  It is never left waiting with nothing that
\* can wake it.  (A receive task that ended with KeyboardInterrupt stops the
\* whole process and is left aside.)
C20_ConsumerEndsAfterLoss ==
  (consumer = "iterating" /\ session = "set" /\ ~alive /\ receive_task # "failed")
    => ENABLED ReceivePathStep

\* thread t is the only thread inside a cycle
OnlyCycle(t) == InCycle(t) /\ \A u \in Threads \ {t} : ~InCycle(u)

\* C24: the streams a cycle acquired are released on every exit path: when a
\* cycle ends (no other cycle being in progress) no input stream, no output
\* stream and no recording file is left open.
C24_StreamsReleasedAtEnd ==
  \A t \in Threads :
    (pc[t] = "end" /\ OnlyCycle(t))
      => (~input_stream /\ ~output_stream /\ ~mic_record_file)

\* C25: the per-cycle flags are not cleared while a cycle is running: in a
\* step taken while some cycle is in progress, should_disconnect and
\* alarm_triggered do not go from set to cleared and disconnect_reason does
\* not go back to its empty value.
C25_FlagsNotResetDuringCycle ==
  [][(\E t \in Threads : InCycle(t))
       => /\ should_disconnect => should_disconnect'
          /\ alarm_triggered => alarm_triggered'
          /\ disconnect_reason # "none" => disconnect_reason' # "none"]_vars

\* C28: during the grace wait of the Disconnect_Socket handler a message that
\* the provider sends on the open connection is still received and processed.
C28_ReceivesDuringGrace ==
  \A t \in Threads :
    (pc[t] = "wait" /\ mpc[t] = "grace" /\ IsOpen(iter[t]) /\ websocket # None)
      => ENABLED (\E k \in EventKinds : MsgRecv(t, k))

\* C23: stop() completes without raising whenever it is called; once it has
\* returned the running flag is cleared, and from then on no step begins a new
\* check-in cycle.
C23_NoCycleAfterStop ==
  [][pc["main"] = "stopped"
       => /\ pc'["main"] # "raised"
          /\ ~is_running
          /\ cycles' = cycles]_vars

\* C30: the step that begins a cycle leaves should_disconnect and
\* alarm_triggered false and disconnect_reason empty, whatever they were
\* before, and leaves is_running as it was; is_running changes only in
\* start(), which sets it, and in stop(), which clears it.
C30_FlagsResetAtCycleStart ==
  [][/\ \A t \in Threads :
          cyc'[t] # cyc[t]
            => /\ ~should_disconnect' /\ ~alarm_triggered'
               /\ disconnect_reason' = "none"
               /\ is_running' = is_running
     /\ is_running' # is_running
          => \/ pc["main"] = "init" /\ is_running'
             \/ /\ pc["main"] \in {"mainwait", "stopped"}
                /\ pc'["main"] \in {"stop_closing", "stopped"}
                /\ ~is_running']_vars

\* the timer's cycle has just begun with the three flags clear, while the
\* cycle of start() has handled a tool call that set one of them
C30_Witness ==
  /\ pc["timer"] = "create" /\ cyc["timer"] = 2
  /\ info["main"].tool /\ InCycle("main")
  /\ ~should_disconnect /\ ~alarm_triggered /\ disconnect_reason = "none"
  /\ is_running

\* the steps of perform_check_in_cycle in program order, with the step a
\* failure leads to
PhaseEdges ==
  {<<"create", "connect">>, <<"connect", "configure">>,
   <<"configure", "audio_setup">>, <<"audio_setup", "greeting1">>,
   <<"greeting1", "greeting2">>, <<"greeting2", "wait">>,
   <<"wait", "teardown">>, <<"teardown", "closing">>, <<"teardown", "end">>,
   <<"closing", "end">>, <<"end", "mainwait">>, <<"end", "sleep">>}
  \cup {<<p, "exc">> : p \in {"create", "connect", "configure", "audio_setup",
                               "greeting1", "greeting2"}}
  \cup {<<"exc", "closing">>, <<"exc", "end">>}

\* the two loops of thread t's cycle have been started
LoopsStarted(t) == apc[t] # "none" \/ mpc[t] # "none"

\* C29: a cycle goes through create session, connect, configure session,
\* greeting, conversation, disconnect and back to idle in this order (a
\* failing step leads to disconnect); the greeting text is written only by
\* the greeting step, never twice in a cycle, and exactly once in every cycle
\* that has started its audio-send loop or its receive loop.
C29_PhasesInOrderGreetingOnce ==
  /\ [](\A t \in Threads :
          /\ info[t].greet <= 1
          /\ (InCycle(t) /\ LoopsStarted(t)) => info[t].greet = 1
          /\ (pc[t] \in {"create", "connect", "configure", "audio_setup", "greeting1"})
               => (info[t].greet = 0 /\ ~LoopsStarted(t)))
  /\ [][\A t \in Threads :
          /\ (InCycle(t) /\ pc'[t] # pc[t]) => <<pc[t], pc'[t]>> \in PhaseEdges
          /\ (lastSend'.kind = "greeting" /\ info'[t] # info[t])
               => (pc[t] = "greeting1" /\ pc'[t] = "greeting2")]_vars

\* a cycle is conversing after it has sent its one greeting
C29_Witness ==
  \E t \in Threads :
    /\ pc[t] = "wait" /\ apc[t] = "run" /\ mpc[t] = "recv"
    /\ info[t].greet = 1

\* C21: the cycle that start() runs begins before any cycle of the timer
\* thread: whenever the timer thread has begun a cycle, start() has begun
\* its own, which is the first of the run.
C21_FirstCycleBeforeTimer ==
  cyc["timer"] # 0 => cyc["main"] = 1

\* C22: while the agent is running the timer thread has not ended, so that a
\* next cycle is still going to be started.
C22_TimerAliveWhileRunning ==
  is_running => pc["timer"] \notin {"dead", "exit"}

\* the provider names get_api_manager knows, in the spellings that are tried
KnownNames == {"openai", "OpenAI", "gemini", "GEMINI"}

\* C26: without a key no agent is constructed, and nothing is started (the
\* running flag stays clear, no cycle begins, no connection is made, the
\* timer thread is not started); the constructor raises only for a missing
\* key; and get_api_manager called with a name it does not know ends with
\* ValueError and produces no manager.
C26_MissingKeyAndUnknownProviderRejected ==
  /\ ~HasKey
       => /\ check_interval_minutes = Nothing
          /\ pc["main"] \notin {"init", "started"} /\ ~InCycle("main")
          /\ ~is_running /\ cycles = 0 /\ websocket = None
          /\ pc["timer"] = "off"
          /\ \A h \in Handles : conn[h] = "unused"
  /\ pc["main"] = "ctor_raised" => ~HasKey
  /\ api_provider \notin KnownNames => manager \in {"none", "ValueError"}
  /\ (manager # "none" /\ api_provider \in KnownNames) => manager # "ValueError"

\* the constructor has raised for a missing key
C26_Witness ==
  /\ pc["main"] = "ctor_raised" /\ ~HasKey
  /\ check_interval_minutes = Nothing /\ ~is_running

\* C27: the interval of every agent that is constructed is a positive
\* integer, and the timer thread never sleeps for a duration that is not
\* positive.
C27_IntervalPositive ==
  /\ check_interval_minutes # Nothing => IntervalMinutes > 0
  /\ pc["timer"] = "sleep" => IntervalMinutes > 0

\* the payload fields of a message that are set
Populated(m) ==
  {f \in {"content", "audio_data", "tool_calls"} : m[f] # Nothing}

\* the messages either adapter has produced so far
Produced ==
  {yielded_openai[n] : n \in 1..Len(yielded_openai)}
    \cup {yielded_gemini[n] : n \in 1..Len(yielded_gemini)}
    \cup {message_queue[n] : n \in 1..Len(message_queue)}

\* the kind of a message decides its payload: audio only for 'audio', a
\* non-empty text only for 'text', a non-empty list of calls only for
\* 'tool_call'
KindDeterminesPayload(m) ==
  /\ m.message_type = "audio" => Populated(m) = {"audio_data"}
  /\ m.message_type = "text"
       => (Populated(m) = {"content"} /\ m.content # Some(""))
  /\ m.message_type = "tool_call"
       => (Populated(m) = {"tool_calls"} /\ Len(m.tool_calls[1]) >= 1)

\* C31 as stated: every message either adapter produces has exactly one of
\* content, audio_data and tool_calls set, and its kind determines which.
C31_ExactlyOnePayload ==
  \A m \in Produced :
    Cardinality(Populated(m)) = 1 /\ KindDeterminesPayload(m)

\* C31 as amended: a message of kind audio, text, tool_call or error has
\* exactly one of content, audio_data and tool_calls set, decided by its kind
\* (an error message carries text); a session_update message has none of the
\* three set and carries the session id in its metadata.
C31_PayloadByKind ==
  \A m \in Produced :
    /\ KindDeterminesPayload(m)
    /\ m.message_type = "error" => Populated(m) = {"content"}
    /\ m.message_type = "session_update"
         => (Populated(m) = {} /\ "session_id" \in m.metadata)
    /\ m.message_type # "session_update" => Cardinality(Populated(m)) = 1

\* both adapters have converted an audio chunk, a tool call and the session
\* notice
C31_Witness ==
  /\ AllConsumed /\ Len(events) = 3
  /\ events[1].kind = "audio" /\ events[2].kind = "tool" /\ events[3].kind = "session"
  /\ Len(yielded_openai) = 3 /\ Len(yielded_gemini) = 2
  /\ yielded_openai[3].message_type = "session_update"
  /\ yielded_gemini[2].message_type = "tool_call"

\* the smaller of two numbers
Min(a, b) == IF a <= b THEN a ELSE b

\* C32: the block built for the prompt is empty when the log is empty; else
\* it holds, between its first and its last line, exactly the most recent
\* min(10, length) turns of the log, oldest first, each as its role (in title
\* case) and its content.
C32_PromptHoldsLastTenTurns ==
  history_prompt # Nothing =>
    LET h == conversation_history
        p == history_prompt[1]
        k == Min(10, Len(h))
    IN /\ (h = <<>>) => (p = <<>>)
       /\ (h # <<>>) =>
            /\ Len(p) = k + 2
            /\ p[1] = SummaryHeader /\ p[k + 2] = SummaryFooter
            /\ \A i \in 1..k :
                 /\ p[i + 1].content = h[Len(h) - k + i].content
                 /\ p[i + 1].role =
                      (IF h[Len(h) - k + i].role = "user" THEN "User" ELSE "Assistant")

\* the block was built from a log of twelve turns
C32_Witness ==
  /\ history_prompt # Nothing
  /\ Len(conversation_history) = 12
  /\ Len(history_prompt[1]) = 12
  /\ history_prompt[1][2].content = conversation_history[3].content

\* the delay has elapsed since the AI was marked as finished
DelayElapsed == finished_at # Nothing => clock - finished_at[1] >= ai_speech_delay

\* C33: under smart muting a chunk given to process_microphone_audio is not
\* forwarded while the AI is marked as speaking nor before the delay has
\* elapsed since it was marked as finished; it is forwarded once the delay has
\* elapsed with no new AI audio (manual mute apart); under manual mute no
\* chunk is forwarded whatever the strategy.
C33_SmartMutingAndManualMute ==
  /\ (strategy = "smart_muting" /\ processed_audio = "forwarded")
       => (~ai_is_speaking /\ DelayElapsed)
  /\ (strategy = "smart_muting" /\ processed_audio = "suppressed" /\ ~manual_mute)
       => (ai_is_speaking \/ ~DelayElapsed)
  /\ manual_mute => processed_audio # "forwarded"

\* a chunk is forwarded under smart muting after the AI has spoken and a
\* delay that is not zero has elapsed
C33_Witness ==
  /\ strategy = "smart_muting" /\ processed_audio = "forwarded"
  /\ finished_at # Nothing /\ ai_speech_delay > 0

\* call i of the batch was evaluated by the dispatcher
Evaluated(i) == i < idx \/ (i = idx /\ ended = idx)

\* the results carrying call_id i that were given to send_tool_response
Delivered(i) ==
  {<<w, n>> \in (1..Len(wire)) \X (1..MaxBatch) :
     n <= Len(wire[w]) /\ wire[w][n].call_id = i}

\* C34: when the dispatcher has returned, every call it evaluated has had
\* exactly one result with its call_id sent to the provider, a Sound_Alarm or
\* unknown call before a Disconnect_Socket call included.
C34_EveryEvaluatedCallAnswered ==
  tpc = "returned" =>
    \A i \in 1..Len(tool_calls) : Evaluated(i) => Cardinality(Delivered(i)) = 1

\* C35: the dispatcher never ends by raising to its caller, whichever send of
\* a result fails.
C35_DispatcherNeverRaises == tpc # "raised"

\* the receive loop of thread t has just handled a Sound_Alarm call whose
\* result was sent
AlarmHandled(t) ==
  mpc[t] = "recv" /\ mpc'[t] = "after_call" /\ lastSend'.ev = "alarm"

\* the receive loop of thread t ends on returning from a handler that did not
\* disconnect
EndsAfterAlarm(t) ==
  /\ mpc[t] = "after_call" /\ ~info[t].grace
  /\ pc'[t] = "wait" /\ mpc'[t] = "done"

\* C36: handling a Sound_Alarm call leaves should_disconnect false and the
\* connection open, and the receive loop does not end on returning from it.
C36_AlarmAloneKeepsSession ==
  [][\A t \in Threads :
       /\ AlarmHandled(t) =>
            /\ ~should_disconnect'
            /\ websocket' = websocket /\ conn' = conn /\ IsOpen(websocket')
       /\ ~EndsAfterAlarm(t)]_vars

\* the cycle on thread t has set should_disconnect: its Disconnect_Socket
\* handler is waiting or closing, or has done so
FlagSetIn(t) ==
  InCycle(t) /\ (mpc[t] \in {"grace", "closing"} \/ info[t].grace)

\* C37: once a cycle has set should_disconnect, it sends no further
\* microphone chunk and its receive loop does not go back to receiving.
C37_NothingAfterFlagSet ==
  [][\A t \in Threads :
       FlagSetIn(t) =>
         /\ ~(lastSend'.kind = "audio" /\ lastSend'.by = cyc[t])
         /\ mpc'[t] # "recv"]_vars

\* C38: once stop() has returned no connection is opened: a cycle that the
\* timer thread had begun before does not connect afterwards.
C38_NoConnectionAfterStop ==
  [][pc["main"] = "stopped" => \A h \in Handles : IsOpen(h)' => IsOpen(h)]_vars

\* C39: every message that receive_messages of the Gemini manager yields was
\* queued by the receive task of the live session now open, never by that of
\* an earlier session of the same manager.
C39_NoMessageFromEarlierSession ==
  [][(provider = "gemini" /\ last_op'.op = "next" /\ last_op'.outcome = "yielded"
        /\ message_queue' # message_queue)
       => old_queued = 0]_vars

\* C40: is_connected is true exactly when the adapter holds a handle.
C40_ConnectedIffHandle == is_connected <=> (session = "set")

====
